---- MODULE Spec2Model ----
(***************************************************************************)
(* Kinetix: the Smart Probe of the live preview (LivePreview and its       *)
(* SmartFloatingButton), the request lifecycle of scans and typed          *)
(* commands, and the App-level creation lifecycle that drives both.        *)
(*                                                                         *)
(* React state is modelled after the commit that follows each handler: a   *)
(* handler, the re-render it causes and the effects of that render are one *)
(* atomic step.  An async handler is split at its awaits: the part before  *)
(* the first await is the step that starts the request, and every resolved *)
(* await is one further step.  A request in flight is an entry of ops.     *)
(*                                                                         *)
(* An optional value (null | T) is a sequence of length 0 or 1.            *)
(*                                                                         *)
(* State that only styles the view is left out (inspectTarget,             *)
(* isButtonDragging, the console's open/expanded flags, the X-ray overlay, *)
(* the play/pause flag).  A message keeps its role, its type, the fixed    *)
(* part of its text and the request that appended it.                      *)
(*                                                                         *)
(* The specifications share the actions: Spec (the probe, manual           *)
(* inspection and their scans, in the session of one imported creation),   *)
(* SpecChat (the probe, the console's commands, auto-navigation and their  *)
(* scans, in such a session), SpecApp (the whole application around a      *)
(* single request) and SpecHistory (generate, import, select and close,    *)
(* with a history of several creations).  SpecGeometry applies the two     *)
(* coordinate mappings of the preview to container rectangles, image       *)
(* dimensions and points drawn by its initial state, and SpecCrop the crop *)
(* window to image dimensions and targets; geo holds one such              *)
(* application, and is left alone by the other specifications.  SpecPatch  *)
(* runs refineSimulation on documents written out as sequences of the      *)
(* pieces its regular expression and its placeholder tell apart; the other *)
(* specifications keep a document as the creation and patch it came from.  *)
(***************************************************************************)
EXTENDS Integers, Naturals, Sequences, FiniteSets, TLC

(* ---------------------------- bounds ----------------------------------- *)
\* requests ever started in a preview session (Spec, SpecChat)
MaxOps == 2
\* "no signal" entries a message log may hold (invalid releases are unbounded)
MaxNoSignal == 1
\* creations ever made by generate or import
MaxCreations == 3
\* creations ever made in the runs of Spec, SpecChat and SpecApp
MaxSessionCreations == 1
\* requests ever started in a run of the whole application
MaxAppOps == 1

(* ------------------------ program constants ---------------------------- *)
\* tip = position + (TipDX, TipDY)
TipDX == 28
TipDY == 80
\* confidence a biological classification must exceed to be accepted
BioThreshold == 50
\* the most pixels a crop is wide or high
CropCap == 400
\* window.innerWidth of the modelled viewport; the probe starts at
\* (innerWidth - ProbeRightInset, ProbeTop)
InnerWidth == 300
ProbeRightInset == 100
ProbeTop == 150

None == << >>
Some(v) == << v >>
IsSome(o) == Len(o) = 1
Val(o) == o[1]

Pt(a, b) == [x |-> a, y |-> b]

(* ------------------------- environment --------------------------------- *)
\* getBoundingClientRect() of the preview container: the content area under
\* the header bar
ContainerRect == [left |-> 0, top |-> 100, width |-> 200, height |-> 100]

\* kinds of creation: made from a raster image, from a PDF, or from text alone
Kinds == {"img", "pdf", "none"}
\* creation.originalImage is set
HasImage(c) == c.kind # "none"
\* creation.originalImage is set and is not a data:application/pdf URL
IsRaster(c) == c.kind = "img"
\* naturalWidth/naturalHeight of a creation's source image
NaturalDims(c) == [width |-> 100, height |-> 100]

\* pointer positions the user can reach: one over the displayed image, one
\* over the letterbox bar left of it
ScreenPoints == { Pt(100, 150), Pt(10, 150) }
\* where on the probe element the pointer grabs it (relative to its top-left)
GrabOffsets == { Pt(TipDX, TipDY) }
\* percentages a found object is reported at
LocatePcts == { Pt(50, 50) }
\* confidences an analyzer reports
Confidences == { BioThreshold - 1, BioThreshold, BioThreshold + 1 }

\* typed commands, as the words they contain
Inputs == { <<"find", "wire">>, <<"fix", "fan">>, <<"fix", "fan", "find", "switch">>, <<"hello">>,
            <<"FIND", "wire">>, <<"Fix", "fan">> }
LocateKeywords == {"find", "locate", "search", "where is", "cari", "mana", "detect"}
ModifyKeywords == {"fix", "change", "broken", "doesn't work", "add", "remove", "modify",
                   "adjust", "salah", "rosak", "tak boleh"}

\* getBoundingClientRect() of the container in other layouts: at the origin,
\* inset and larger, and collapsed to no width, no height or neither
GeoContainers ==
    { [left |-> 0, top |-> 0, width |-> 200, height |-> 100],
      ContainerRect,
      [left |-> 20, top |-> 40, width |-> 400, height |-> 300],
      [left |-> 0, top |-> 0, width |-> 0, height |-> 100],
      [left |-> 0, top |-> 0, width |-> 100, height |-> 0],
      [left |-> 0, top |-> 0, width |-> 0, height |-> 0] }
\* the imgDims state: not loaded, or naturalWidth and naturalHeight of the
\* loaded image (0 for an image without intrinsic size); the small sizes
\* stand for the aspect ratios 1:3 to 3:1
GeoDims ==
    { << >>, << [width |-> 100, height |-> 100] >> } \cup
    { << [width |-> w, height |-> h] >> : w \in {0, 1, 2, 3}, h \in {0, 1, 3} }
\* clientX / clientY of a pointer event
GeoPoints ==
    { [x |-> a, y |-> b] :
        a \in {-10, 0, 2, 10, 20, 22, 50, 100, 137, 200, 419, 420, 430},
        b \in {-10, 0, 1, 40, 50, 100, 140, 150, 200, 339, 340, 350} }
\* percentages given to the inverse mapping
GeoPcts == { [x |-> 50, y |-> 50], [x |-> 100, y |-> 0] }

\* natural sizes of source images, around 2000 pixels, where a fifth of the
\* side reaches CropCap
CropSides == {1, 5, 100, 1999, 2000, 2001, 10000}
\* percentages of a target
CropPcts == {0, 1, 10, 50, 90, 99, 100}

(* --------------------------- geometry ---------------------------------- *)
\* Math.round(n / d) for d > 0: floor(n/d + 1/2)
RoundDiv(n, d) == (2 * n + d) \div (2 * d)

Clamp(lo, hi, v) == IF v < lo THEN lo ELSE IF v > hi THEN hi ELSE v
\* Math.min, Math.max
Min(a, b) == IF a < b THEN a ELSE b
Max(a, b) == IF a > b THEN a ELSE b

\* variant of ContainFit that fills the container (object-fit: cover): the
\* two branches are exchanged
ContainFitCover(container, dims) ==
    LET W == container.width
        H == container.height
        w == dims.width
        h == dims.height
    IN IF W * h > w * H /\ w > 0
       THEN [den |-> 2 * w, dispW |-> 2 * W * w, dispH |-> 2 * W * h,
             offX |-> 0, offY |-> H * w - W * h, nanH |-> FALSE]
       ELSE IF h > 0
            THEN [den |-> 2 * h, dispW |-> 2 * H * w, dispH |-> 2 * H * h,
                  offX |-> W * h - H * w, offY |-> 0, nanH |-> FALSE]
            ELSE [den |-> 2, dispW |-> 2 * W, dispH |-> 0, offX |-> 0, offY |-> 0,
                  nanH |-> TRUE]

\* The contain fit, kept exact by scaling: with W = container.width,
\* H = container.height, w, h the natural size, all lengths are returned as
\* numerators over the common denominator den (2h when the height constrains,
\* 2w when the width does).  The comparison of the two ratios is the
\* comparison of the cross products also when a size is 0: a ratio n/0 is
\* Infinity, 0/0 is NaN, and a comparison with NaN is false.  In the second
\* branch displayedHeight = width / imageRatio is NaN when the natural width
\* is 0 (imageRatio is 0 or NaN, and the container's width is then 0 or the
\* ratio NaN); nanH marks it, and offsetY is NaN with it.
ContainFit(container, dims) ==
    LET W == container.width
        H == container.height
        w == dims.width
        h == dims.height
    IN IF W * h > w * H   \* containerRatio > imageRatio
       THEN [den |-> 2 * h, dispW |-> 2 * H * w, dispH |-> 2 * H * h,
             offX |-> W * h - H * w, offY |-> 0, nanH |-> FALSE]
       ELSE IF w > 0
            THEN [den |-> 2 * w, dispW |-> 2 * W * w, dispH |-> 2 * W * h,
                  offX |-> 0, offY |-> H * w - W * h, nanH |-> FALSE]
            ELSE [den |-> 2, dispW |-> 2 * W, dispH |-> 0, offX |-> 0, offY |-> 0,
                  nanH |-> TRUE]

InvalidTarget == [xPct |-> 0, yPct |-> 0, valid |-> FALSE]

\* A percentage that may be NaN: nan marks it, and v is then 0.
\* Math.max(0, Math.min(100, Math.round((rel / size) * 100))): a division of
\* a non-zero number by 0 is +-Infinity and is clamped, 0 / 0 is NaN and stays
\* NaN through Math.round, Math.min and Math.max.
ClampedPct(rel, size) ==
    IF size > 0 THEN [nan |-> FALSE, v |-> Clamp(0, 100, RoundDiv(rel * 100, size))]
    ELSE IF rel > 0 THEN [nan |-> FALSE, v |-> 100]
    ELSE IF rel < 0 THEN [nan |-> FALSE, v |-> 0]
    ELSE [nan |-> TRUE, v |-> 0]

\* Math.round((num / size) * 100) for a point that passed the bounds check:
\* with size 0 the check leaves num = 0 only, and 0 / 0 is NaN; so is a
\* division by a size that is NaN
RoundedPct(num, size, sizeIsNaN) ==
    IF sizeIsNaN \/ size = 0 THEN [nan |-> TRUE, v |-> 0]
    ELSE [nan |-> FALSE, v |-> RoundDiv(num * 100, size)]

\* the result record, with the marks of the coordinates that are NaN
Target(x, y, ok) ==
    [xPct |-> x.v, yPct |-> y.v, valid |-> ok, xNaN |-> x.nan, yNaN |-> y.nan]

\* variant of calculateImageCoordinatesIn that maps against the container's
\* rectangle whether or not the image dimensions are known
calculateImageCoordinatesOfContainer(container, screenX, screenY, dims) ==
    Target(ClampedPct(screenX - container.left, container.width),
           ClampedPct(screenY - container.top, container.height), TRUE)

\* variant of calculateImageCoordinatesIn that cuts the percentages of a point
\* of the image down to whole numbers instead of rounding them
calculateImageCoordinatesTruncating(container, screenX, screenY, dims) ==
    IF ~IsSome(dims)
    THEN Target(ClampedPct(screenX - container.left, container.width),
                ClampedPct(screenY - container.top, container.height), TRUE)
    ELSE LET f == ContainFit(container, Val(dims))
             relX == (screenX - container.left) * f.den
             relY == (screenY - container.top) * f.den
         IN IF \/ relX < f.offX
               \/ relX > f.offX + f.dispW
               \/ ~f.nanH /\ relY < f.offY
               \/ ~f.nanH /\ relY > f.offY + f.dispH
            THEN Target([nan |-> FALSE, v |-> 0], [nan |-> FALSE, v |-> 0], FALSE)
            ELSE Target(IF f.dispW = 0 THEN [nan |-> TRUE, v |-> 0]
                        ELSE [nan |-> FALSE, v |-> ((relX - f.offX) * 100) \div f.dispW],
                        IF f.nanH \/ f.dispH = 0 THEN [nan |-> TRUE, v |-> 0]
                        ELSE [nan |-> FALSE, v |-> ((relY - f.offY) * 100) \div f.dispH],
                        TRUE)

\* variant of calculateImageCoordinatesIn whose fallback does not clamp
calculateImageCoordinatesUnclamped(container, screenX, screenY, dims) ==
    IF ~IsSome(dims)
    THEN Target(RoundedPct(screenX - container.left, container.width, FALSE),
                RoundedPct(screenY - container.top, container.height, FALSE), TRUE)
    ELSE LET f == ContainFit(container, Val(dims))
             relX == (screenX - container.left) * f.den
             relY == (screenY - container.top) * f.den
         IN IF \/ relX < f.offX
               \/ relX > f.offX + f.dispW
               \/ ~f.nanH /\ relY < f.offY
               \/ ~f.nanH /\ relY > f.offY + f.dispH
            THEN Target([nan |-> FALSE, v |-> 0], [nan |-> FALSE, v |-> 0], FALSE)
            ELSE Target(RoundedPct(relX - f.offX, f.dispW, FALSE),
                        RoundedPct(relY - f.offY, f.dispH, f.nanH), TRUE)

\* calculateImageCoordinates for a container rectangle; dims is the imgDims
\* state (optional); the container ref is attached.  A comparison with a NaN
\* offset or size is false, so the check of the vertical bounds lets every
\* point through when displayedHeight is NaN.
calculateImageCoordinatesIn(container, screenX, screenY, dims) ==
    IF ~IsSome(dims)
    THEN Target(ClampedPct(screenX - container.left, container.width),
                ClampedPct(screenY - container.top, container.height), TRUE)
    ELSE LET f == ContainFit(container, Val(dims))
             relX == (screenX - container.left) * f.den
             relY == (screenY - container.top) * f.den
         IN IF \/ relX < f.offX
               \/ relX > f.offX + f.dispW
               \/ ~f.nanH /\ relY < f.offY
               \/ ~f.nanH /\ relY > f.offY + f.dispH
            THEN Target([nan |-> FALSE, v |-> 0], [nan |-> FALSE, v |-> 0], FALSE)
            ELSE Target(RoundedPct(relX - f.offX, f.dispW, FALSE),
                        RoundedPct(relY - f.offY, f.dispH, f.nanH), TRUE)

\* the mapping in the preview: its container is ContainerRect, and the
\* image dimensions it meets are positive, so no coordinate is NaN
calculateImageCoordinates(screenX, screenY, dims) ==
    LET t == calculateImageCoordinatesIn(ContainerRect, screenX, screenY, dims)
    IN [xPct |-> t.xPct, yPct |-> t.yPct, valid |-> t.valid]

\* variant of pctToScreenIn that returns the position of the target itself,
\* without taking the offset of the tip off
pctToScreenOfTarget(container, xPct, yPct, dims) ==
    IF ~IsSome(dims) THEN None
    ELSE LET f == ContainFit(container, Val(dims))
             D == f.den * 100
         IN Some([den |-> D,
                  x |-> container.left * D + f.offX * 100 + f.dispW * xPct,
                  y |-> container.top * D + f.offY * 100 + f.dispH * yPct,
                  yNaN |-> f.nanH])

\* pctToScreen for a container rectangle: the probe position (top-left) that
\* puts the tip on (xPct, yPct), exact as numerators x, y over den; y is NaN
\* (yNaN) when displayedHeight is
pctToScreenIn(container, xPct, yPct, dims) ==
    IF ~IsSome(dims) THEN None
    ELSE LET f == ContainFit(container, Val(dims))
             D == f.den * 100
         IN Some([den |-> D,
                  x |-> (container.left - TipDX) * D + f.offX * 100 + f.dispW * xPct,
                  y |-> (container.top - TipDY) * D + f.offY * 100 + f.dispH * yPct,
                  yNaN |-> f.nanH])

\* variant of pctToScreen that falls back to the container's own rectangle
\* when the image dimensions are unknown
pctToScreenOfContainer(xPct, yPct, dims) ==
    LET f == ContainFit(ContainerRect, IF IsSome(dims) THEN Val(dims)
                                       ELSE [width |-> ContainerRect.width,
                                             height |-> ContainerRect.height])
        screenX == ContainerRect.left + (f.offX * 100 + f.dispW * xPct) \div (f.den * 100)
        screenY == ContainerRect.top + (f.offY * 100 + f.dispH * yPct) \div (f.den * 100)
    IN Some(Pt(screenX - TipDX, screenY - TipDY))

\* the inverse mapping in the preview, in whole pixels (exact for
\* ContainerRect and NaturalDims; truncated otherwise)
pctToScreen(xPct, yPct, dims) ==
    LET r == pctToScreenIn(ContainerRect, xPct, yPct, dims)
    IN IF IsSome(r) THEN Some(Pt(Val(r).x \div Val(r).den, Val(r).y \div Val(r).den))
       ELSE None

\* variant of cropWindow without the cap of CropCap pixels
cropWindowUncapped(xPct, yPct, dims) ==
    LET cropWidth == 20 * dims.width
        cropHeight == 20 * dims.height
    IN [den |-> 100, width |-> cropWidth, height |-> cropHeight,
        srcX |-> Max(0, Min(xPct * dims.width - cropWidth \div 2,
                            100 * dims.width - cropWidth)),
        srcY |-> Max(0, Min(yPct * dims.height - cropHeight \div 2,
                            100 * dims.height - cropHeight))]

\* variant of cropWindow that centres the window on the target wherever it is
cropWindowUnclamped(xPct, yPct, dims) ==
    LET cropWidth == Min(20 * dims.width, CropCap * 100)
        cropHeight == Min(20 * dims.height, CropCap * 100)
    IN [den |-> 100, width |-> cropWidth, height |-> cropHeight,
        srcX |-> xPct * dims.width - cropWidth \div 2,
        srcY |-> yPct * dims.height - cropHeight \div 2]

\* The source rectangle cropImage hands to drawImage, exact in hundredths of
\* a pixel (den): cropWidth = Math.min(imgDims.width * 0.2, 400), centerX =
\* (xPct / 100) * imgDims.width, srcX = Math.max(0, Math.min(centerX -
\* cropWidth / 2, imgDims.width - cropWidth)), and the same vertically.
cropWindow(xPct, yPct, dims) ==
    LET cropWidth == Min(20 * dims.width, CropCap * 100)
        cropHeight == Min(20 * dims.height, CropCap * 100)
    IN [den |-> 100, width |-> cropWidth, height |-> cropHeight,
        srcX |-> Max(0, Min(xPct * dims.width - cropWidth \div 2,
                            100 * dims.width - cropWidth)),
        srcY |-> Max(0, Min(yPct * dims.height - cropHeight \div 2,
                            100 * dims.height - cropHeight))]

\* variant of getTipPosition that aims with the top-left corner of the probe
getTipPositionAtTopLeft(currentX, currentY) == Pt(currentX, currentY)

getTipPosition(currentX, currentY) == Pt(currentX + TipDX, currentY + TipDY)

(* ------------------------ remote service ------------------------------- *)
\* What ai.models.generateContent can answer to a JSON request: it throws,
\* answers with no text, with text that is not JSON, with the JSON text
\* "null", or with a JSON object.
Statuses == {"throw", "empty", "garbage", "null", "object"}

BioResponses ==
    { [status |-> s, isBiological |-> FALSE, confidence |-> 0] : s \in Statuses \ {"object"} }
    \cup { [status |-> "object", isBiological |-> b, confidence |-> c] :
             b \in BOOLEAN, c \in Confidences }
TechResponses ==
    { [status |-> s, isTechnical |-> FALSE] : s \in Statuses \ {"object"} }
    \cup { [status |-> "object", isTechnical |-> b] : b \in BOOLEAN }
LocateResponses ==
    { [status |-> s, found |-> FALSE, at |-> Pt(50, 50)] : s \in Statuses \ {"object"} }
    \cup { [status |-> "object", found |-> b, at |-> q] : b \in BOOLEAN, q \in LocatePcts }
\* text requests: the call throws, answers with no text, or with text
TextResponses == {"throw", "empty", "text"}

\* JSON.parse(response.text || '{}') inside try/catch: a thrown call and
\* unparseable text give the default record, no text gives {} (every field
\* undefined, so falsy), "null" gives null.  isNull marks the null result.
analyzeBiologicalEntity(resp) ==
    CASE resp.status = "object" ->
            [isNull |-> FALSE, isBiological |-> resp.isBiological, confidence |-> resp.confidence]
      [] resp.status = "null" ->
            [isNull |-> TRUE, isBiological |-> FALSE, confidence |-> 0]
      [] OTHER ->
            [isNull |-> FALSE, isBiological |-> FALSE, confidence |-> 0]

analyzeTechnicalComponent(resp) ==
    CASE resp.status = "object" -> [isNull |-> FALSE, isTechnical |-> resp.isTechnical]
      [] resp.status = "null" -> [isNull |-> TRUE, isTechnical |-> FALSE]
      [] OTHER -> [isNull |-> FALSE, isTechnical |-> FALSE]

locateObject(resp) ==
    CASE resp.status = "object" -> [isNull |-> FALSE, found |-> resp.found, at |-> resp.at]
      [] resp.status = "null" -> [isNull |-> TRUE, found |-> FALSE, at |-> Pt(50, 50)]
      [] OTHER -> [isNull |-> FALSE, found |-> FALSE, at |-> Pt(50, 50)]

\* askQuestion never throws: a thrown call becomes the text "Error analyzing
\* content.", no text becomes "No analysis generated."
askQuestion(resp) ==
    CASE resp = "throw" -> "Error analyzing content."
      [] resp = "empty" -> "No analysis generated."
      [] OTHER -> "answer"

(* ----------------------------- state ----------------------------------- *)
VARIABLES
    \* App
    activeCreation,   \* optional creation [id, kind]
    isGenerating,
    history,          \* sequence of creations, newest first
    \* LivePreview
    messages,         \* sequence of [role, type, text, op]
    isChatLoading,
    isPatching,
    bioData,          \* optional [isBiological, confidence, req]; req (not in the
                      \* program) is the id of the request that set it
    techData,         \* optional [isTechnical, req]
    imgDims,          \* optional [width, height]
    imgLoads,         \* natural sizes of the images whose onload is pending
    isInspectMode,
    autoPilotPos,     \* optional point
    isLoupeVisible,
    currentHtml,      \* [base, patch]: creation.html of creation base, as patched by request patch
    isPlaying,
    isRunning,        \* the flag of that name in the document the iframe holds
                      \* (FALSE while there is no iframe)
    \* SmartFloatingButton (default values while it is not mounted)
    probe,            \* [position, isDragging, isAutoPiloting, dragOffset, timer]
    \* requests in flight and resolved
    ops,
    \* observation of the run, read by the properties only
    lastInvalid,      \* the handler the last step ran on a target with valid = FALSE, or "none"
    invalidUsed,      \* a crop, magnifier update or scan was given a target with valid = FALSE
    \* the coordinate mappings, applied once (not state of the program)
    geo               \* [container, dims, point, fit, target, back, crop]

appVars == << activeCreation, isGenerating, history >>
chatVars == << messages, isChatLoading, isPatching, bioData, techData >>
viewVars == << imgDims, imgLoads, isInspectMode, autoPilotPos, isLoupeVisible, currentHtml >>
simVars == << isPlaying, isRunning >>
obsVars == << lastInvalid, invalidUsed >>
vars == << appVars, chatVars, viewVars, simVars, probe, ops, obsVars, geo >>

\* the pool of request ids is the one Init made
OpIds == DOMAIN ops

\* kind: the handler; pc: the await it is suspended at; calls: the remote calls it
\* made so far; outcome: the branch that ended it; resets: how many times it ran
\* the statement that lowers its busy flag; dims, arg: values its closure captured
NoOp == [kind |-> "none", pc |-> "idle", calls |-> << >>, outcome |-> "none",
         resets |-> 0, dims |-> None, html |-> [base |-> 0, patch |-> 0], arg |-> ""]
NewOp(k, at, d, a) == [kind |-> k, pc |-> at, calls |-> << at >>, outcome |-> "none",
                       resets |-> 0, dims |-> d, html |-> [base |-> 0, patch |-> 0],
                       arg |-> a]

Started(i) == ops[i].kind # "none"
InFlight(i) == Started(i) /\ ops[i].pc \notin {"done", "crashed"}
Resolved(i) == ops[i].pc = "done"
NumStarted == Cardinality({ i \in OpIds : Started(i) })
\* the id the next request gets: ids are issued in increasing order
NextOp == NumStarted + 1
CanStart == NumStarted < Cardinality(OpIds)

Msg(r, t, txt, i) == [role |-> r, type |-> t, text |-> txt, op |-> i]
NoSignalMsg == Msg("ai", "scan", "Scan failed: No signal.", 0)
NumNoSignal == Cardinality({ k \in 1 .. Len(messages) : messages[k] = NoSignalMsg })

DefaultPosition == Pt(InnerWidth - ProbeRightInset, ProbeTop)
\* useState initial values of SmartFloatingButton
InitProbe == [position |-> DefaultPosition, isDragging |-> FALSE, isAutoPiloting |-> FALSE,
              dragOffset |-> Pt(0, 0), timer |-> None]

EmptyHtml == [base |-> 0, patch |-> 0]

\* no mapping applied yet to the point p of the container c with imgDims d
Unmapped(c, d, p) ==
    [container |-> c, dims |-> d, point |-> p, fit |-> << >>, target |-> << >>,
     back |-> << >>, crop |-> << >>]
\* the preview's own container, before the image has loaded
NoGeo == Unmapped(ContainerRect, << >>, [x |-> 0, y |-> 0])

\* the state after the first render of App, with room for n requests
Constructed(n) ==
    /\ activeCreation = None
    /\ isGenerating = FALSE
    /\ history = << >>
    /\ messages = << >>
    /\ isChatLoading = FALSE
    /\ isPatching = FALSE
    /\ bioData = None
    /\ techData = None
    /\ imgDims = None
    /\ imgLoads = {}
    /\ isInspectMode = FALSE
    /\ autoPilotPos = None
    /\ isLoupeVisible = FALSE
    /\ currentHtml = EmptyHtml
    /\ probe = InitProbe
    /\ ops = [i \in 1 .. n |-> NoOp]
    /\ lastInvalid = "none"
    /\ invalidUsed = FALSE
    /\ isPlaying = FALSE
    /\ isRunning = FALSE
    /\ geo = NoGeo

(* ---------------------- SmartFloatingButton ---------------------------- *)
\* {!isLoading && creation && !isInspectMode && <SmartFloatingButton .../>}
Mounted(generating, active, inspect) == ~generating /\ IsSome(active) /\ ~inspect
\* variant of ProbeMounted that takes the probe away while the console is busy
ProbeMountedWhenIdle == Mounted(isGenerating, activeCreation, isInspectMode) /\ ~isChatLoading

ProbeMounted == Mounted(isGenerating, activeCreation, isInspectMode)

\* variant of RunMoveToEffect whose timer aims at the target position itself,
\* without the offset of the tip
RunMoveToEffectWithoutTipOffset(p, moveTo, dims) ==
    IF IsSome(moveTo)
    THEN [p EXCEPT !.isAutoPiloting = TRUE,
                   !.position = Val(moveTo),
                   !.timer = Some([tip |-> Val(moveTo), dims |-> dims])]
    ELSE [p EXCEPT !.timer = None]

\* useEffect(..., [moveTo]): the cleanup of the previous run clears its timer;
\* with a target the probe is placed on it and a timer is started whose
\* callbacks are those of this render (dims: the imgDims they close over)
RunMoveToEffect(p, moveTo, dims) ==
    IF IsSome(moveTo)
    THEN [p EXCEPT !.isAutoPiloting = TRUE,
                   !.position = Val(moveTo),
                   !.timer = Some([tip |-> Pt(Val(moveTo).x + TipDX, Val(moveTo).y + TipDY),
                                   dims |-> dims])]
    ELSE [p EXCEPT !.timer = None]

\* the probe after a commit: unmounted it holds no state, a fresh mount starts
\* from the initial state and runs the effect, a kept mount runs the effect
\* when moveTo is a new value
CommitProbe(wasMounted, nowMounted, moveToChanged, moveTo, dims, p) ==
    IF ~nowMounted THEN InitProbe
    ELSE IF ~wasMounted THEN RunMoveToEffect(InitProbe, moveTo, dims)
    ELSE IF moveToChanged THEN RunMoveToEffect(p, moveTo, dims)
    ELSE p

(* ------------------------- App: creations ------------------------------ *)
IsFocused == IsSome(activeCreation) \/ isGenerating
HistoryIds == { history[k].id : k \in 1 .. Len(history) }

\* the iframe is rendered
FrameMounted(generating, active) == ~generating /\ IsSome(active)

\* isRunning after a render with srcDoc = html: the iframe keeps its document
\* while it stays mounted with the same srcDoc; a document it loads starts
\* with isRunning = false
FrameAfter(generating, active, html) ==
    IF /\ FrameMounted(isGenerating, activeCreation)
       /\ FrameMounted(generating, active)
       /\ html = currentHtml
    THEN isRunning ELSE FALSE

\* The two effects of LivePreview that depend on [creation], and the commit of
\* the probe, after App set activeCreation to active and isGenerating to
\* generating.  changed: activeCreation is a new object.
CreationEffects(active, generating, changed) ==
    /\ isPlaying' = IF changed THEN FALSE ELSE isPlaying
    /\ isRunning' = FrameAfter(generating, active,
                               IF changed /\ IsSome(active)
                               THEN [base |-> Val(active).id, patch |-> 0]
                               ELSE currentHtml)
    /\ IF changed
       THEN /\ currentHtml' = IF IsSome(active) THEN [base |-> Val(active).id, patch |-> 0]
                              ELSE currentHtml
            /\ imgLoads' = IF IsSome(active) /\ IsRaster(Val(active))
                           THEN imgLoads \cup { NaturalDims(Val(active)) }
                           ELSE imgLoads
            /\ messages' = << >>
            /\ isInspectMode' = FALSE
            /\ isPatching' = FALSE
            /\ autoPilotPos' = None
            /\ bioData' = None
            /\ techData' = None
            /\ probe' = CommitProbe(ProbeMounted, Mounted(generating, active, FALSE),
                                    IsSome(autoPilotPos), None, imgDims, probe)
       ELSE /\ UNCHANGED << currentHtml, imgLoads, messages, isInspectMode, isPatching, autoPilotPos, bioData, techData >>
            /\ probe' = CommitProbe(ProbeMounted, Mounted(generating, active, isInspectMode),
                                    FALSE, autoPilotPos, imgDims, probe)

\* handleGenerate up to its await; InputArea is disabled while focused
GenerateStart(kind) ==
    /\ CanStart
    /\ ~IsFocused
    /\ isGenerating' = TRUE
    /\ activeCreation' = None
    /\ ops' = [ops EXCEPT ![NextOp] = NewOp("generate", "gen", None, kind)]
    /\ CreationEffects(None, TRUE, FALSE)
    /\ lastInvalid' = "none"
    /\ UNCHANGED << history, isChatLoading, imgDims, isLoupeVisible, invalidUsed >>
    /\ UNCHANGED geo

\* handleGenerate after bringToLife settled: it resolved with html (never
\* empty) or threw; finally lowers isGenerating
GenerateResolve(i, resp) ==
    /\ InFlight(i) /\ ops[i].kind = "generate"
    /\ LET ok == resp # "throw" /\ Len(history) < MaxCreations
           made == [id |-> Len(history) + 1, kind |-> ops[i].arg]
       IN /\ resp = "throw" \/ Len(history) < MaxCreations
          /\ activeCreation' = IF ok THEN Some(made) ELSE activeCreation
          /\ history' = IF ok THEN << made >> \o history ELSE history
          /\ isGenerating' = FALSE
          /\ ops' = [ops EXCEPT ![i].pc = "done",
                                ![i].outcome = IF ok THEN "created" ELSE "failed",
                                ![i].resets = 1]
          /\ CreationEffects(IF ok THEN Some(made) ELSE activeCreation, FALSE, ok)
    /\ lastInvalid' = "none"
    /\ UNCHANGED << isChatLoading, imgDims, isLoupeVisible, invalidUsed >>
    /\ UNCHANGED geo

\* handleSelectCreation: the history list is reachable only while not focused
SelectCreation(k) ==
    /\ ~IsFocused
    /\ k \in 1 .. Len(history)
    /\ activeCreation' = Some(history[k])
    /\ CreationEffects(Some(history[k]), isGenerating, TRUE)
    /\ lastInvalid' = "none"
    /\ UNCHANGED << isGenerating, history, isChatLoading, imgDims, isLoupeVisible,
                    ops, invalidUsed >>
    /\ UNCHANGED geo

\* handleReset, from the close buttons of the focused preview
Reset ==
    /\ IsFocused
    /\ activeCreation' = None
    /\ isGenerating' = FALSE
    /\ CreationEffects(None, FALSE, IsSome(activeCreation))
    /\ lastInvalid' = "none"
    /\ UNCHANGED << history, isChatLoading, imgDims, isLoupeVisible, ops, invalidUsed >>
    /\ UNCHANGED geo

\* the files handleImportFile can be given: a record without html or name, a
\* record carrying an id of the history (its content is the file's, not the
\* history's), or a record with an id the history does not hold
ImportFiles ==
    { [valid |-> FALSE, id |-> 0, kind |-> "none"] }
    \cup { [valid |-> TRUE, id |-> history[k].id, kind |-> kd] :
             k \in 1 .. Len(history), kd \in Kinds }
    \cup { [valid |-> TRUE, id |-> Len(history) + 1, kind |-> kd] : kd \in Kinds }

\* the files that are not in the history yet
NewFiles == { f \in ImportFiles : f.valid /\ f.id \notin HistoryIds }

\* variant of ImportFile that adds every accepted record to the history
ImportFileWithoutDedup(f) ==
    /\ f \in ImportFiles
    /\ ~f.valid \/ Len(history) < MaxCreations
    /\ LET imported == [id |-> f.id, kind |-> f.kind]
       IN IF f.valid
          THEN /\ history' = << imported >> \o history
               /\ activeCreation' = Some(imported)
               /\ CreationEffects(Some(imported), isGenerating, TRUE)
          ELSE /\ UNCHANGED << history, activeCreation >>
               /\ CreationEffects(activeCreation, isGenerating, FALSE)
    /\ lastInvalid' = "none"
    /\ UNCHANGED << isGenerating, isChatLoading, imgDims, isLoupeVisible, ops, invalidUsed >>
    /\ UNCHANGED geo

\* reader.onload of handleImportFile
ImportFile(f) ==
    /\ f \in ImportFiles
    /\ f.id \in HistoryIds \/ ~f.valid \/ Len(history) < MaxCreations
    /\ LET imported == [id |-> f.id, kind |-> f.kind]
       IN IF f.valid
          THEN /\ history' = IF f.id \in HistoryIds THEN history ELSE << imported >> \o history
               /\ activeCreation' = Some(imported)
               /\ CreationEffects(Some(imported), isGenerating, TRUE)
          ELSE /\ UNCHANGED << history, activeCreation >>
               /\ CreationEffects(activeCreation, isGenerating, FALSE)
    /\ lastInvalid' = "none"
    /\ UNCHANGED << isGenerating, isChatLoading, imgDims, isLoupeVisible, ops, invalidUsed >>
    /\ UNCHANGED geo

\* img.onload of the preload started by the creation effect
ImageLoaded(d) ==
    /\ d \in imgLoads
    /\ imgDims' = Some(d)
    /\ imgLoads' = imgLoads \ {d}
    /\ lastInvalid' = "none"
    /\ UNCHANGED << appVars, chatVars, isInspectMode, autoPilotPos,
                    isLoupeVisible, currentHtml, probe, ops, invalidUsed >>
    /\ UNCHANGED << geo, simVars >>

(* ----------------------- LivePreview: scans ---------------------------- *)
\* cropImage returns a crop only with a source image and known dimensions
\* (dims: the imgDims the calling closure holds)
cropImage(active, dims) == IsSome(active) /\ HasImage(Val(active)) /\ IsSome(dims)

\* handleSmartToolMove: run is FALSE when it returned at once (inspect mode);
\* loupe is the visibility it sets; updateLoupe is called with target iff loupe
handleSmartToolMove(screenX, screenY, inspect, dims) ==
    LET coords == calculateImageCoordinates(screenX, screenY, dims)
    IN IF inspect THEN [run |-> FALSE, loupe |-> FALSE, target |-> coords]
       ELSE IF ~coords.valid THEN [run |-> TRUE, loupe |-> FALSE, target |-> coords]
       ELSE [run |-> TRUE, loupe |-> TRUE, target |-> coords]

\* variant of handleProbeRelease without the validity check
handleProbeReleaseUnchecked(screenX, screenY, dims) ==
    [scan |-> TRUE, target |-> calculateImageCoordinates(screenX, screenY, dims)]

\* handleProbeRelease: scan is TRUE when it goes on to handleScanQuery(target)
handleProbeRelease(screenX, screenY, dims) ==
    LET coords == calculateImageCoordinates(screenX, screenY, dims)
    IN IF ~coords.valid THEN [scan |-> FALSE, target |-> coords]
       ELSE [scan |-> TRUE, target |-> coords]

\* handleInspectClick (the overlay exists only in inspect mode)
handleInspectClick(screenX, screenY, dims) ==
    LET coords == calculateImageCoordinates(screenX, screenY, dims)
    IN IF coords.valid THEN [scan |-> TRUE, target |-> coords]
       ELSE [scan |-> FALSE, target |-> coords]

\* variant of BioAccepted that accepts at the threshold itself
BioAcceptedAtThreshold(r) == r.isBiological /\ r.confidence >= BioThreshold

\* bioResult.isBiological && bioResult.confidence > 50
BioAccepted(r) == r.isBiological /\ r.confidence > BioThreshold

\* variant of HandleScanQuery that starts the log afresh for each scan
HandleScanQueryClearingLog(dims) ==
    /\ CanStart
    /\ isChatLoading' = TRUE
    /\ bioData' = None
    /\ techData' = None
    /\ messages' = << Msg("user", "scan", "Scanning coordinates", NextOp) >>
    /\ ops' = [ops EXCEPT ![NextOp] =
                 NewOp("scan", IF cropImage(activeCreation, dims) THEN "bio" ELSE "generic",
                       None, "")]

\* variant of HandleScanQuery that gives up when no crop can be made: it
\* reports the failure and makes no remote call
HandleScanQueryAbortingWithoutCrop(dims) ==
    IF cropImage(activeCreation, dims)
    THEN /\ CanStart
         /\ isChatLoading' = TRUE
         /\ bioData' = None
         /\ techData' = None
         /\ messages' = Append(messages, Msg("user", "scan", "Scanning coordinates", NextOp))
         /\ ops' = [ops EXCEPT ![NextOp] = NewOp("scan", "bio", None, "")]
    ELSE /\ messages' = Append(messages, Msg("ai", "none", "Scan failed. Signal lost.", 0))
         /\ UNCHANGED << isChatLoading, bioData, techData, ops >>

\* handleScanQuery up to its first await
HandleScanQuery(dims) ==
    /\ CanStart
    /\ isChatLoading' = TRUE
    /\ bioData' = None
    /\ techData' = None
    /\ messages' = Append(messages, Msg("user", "scan", "Scanning coordinates", NextOp))
    /\ ops' = [ops EXCEPT ![NextOp] =
                 NewOp("scan", IF cropImage(activeCreation, dims) THEN "bio" ELSE "generic",
                       None, "")]

\* variant of Release that raises the busy flag before it looks at the target
\* and returns on an invalid one without lowering it
ReleaseRaisingFirst(r, dims) ==
    /\ isLoupeVisible' = FALSE
    /\ lastInvalid' = IF r.target.valid THEN "none" ELSE "release"
    /\ IF r.scan
       THEN HandleScanQuery(dims)
       ELSE /\ NumNoSignal < MaxNoSignal
            /\ messages' = Append(messages, NoSignalMsg)
            /\ isChatLoading' = TRUE
            /\ UNCHANGED << bioData, techData, ops >>

\* the rest of handleProbeRelease, given what it decided
Release(r, dims) ==
    /\ isLoupeVisible' = FALSE
    /\ lastInvalid' = IF r.target.valid THEN "none" ELSE "release"
    /\ IF r.scan
       THEN HandleScanQuery(dims)
       ELSE /\ NumNoSignal < MaxNoSignal
            /\ messages' = Append(messages, NoSignalMsg)
            /\ UNCHANGED << isChatLoading, bioData, techData, ops >>

\* variant of PointerDown whose onDragStart leaves the navigation target set
PointerDownKeepingTarget(off) ==
    /\ ProbeMounted
    /\ off \in GrabOffsets
    /\ probe' = [probe EXCEPT !.isDragging = TRUE, !.isAutoPiloting = FALSE,
                              !.dragOffset = off]
    /\ lastInvalid' = "none"
    /\ UNCHANGED << appVars, chatVars, viewVars, ops, invalidUsed >>
    /\ UNCHANGED << geo, simVars >>

\* handleMouseDown / handleTouchStart, with onDragStart
PointerDown(off) ==
    /\ ProbeMounted
    /\ off \in GrabOffsets
    /\ probe' = [probe EXCEPT !.isDragging = TRUE, !.isAutoPiloting = FALSE,
                              !.dragOffset = off, !.timer = None]
    /\ autoPilotPos' = None
    /\ lastInvalid' = "none"
    /\ UNCHANGED << appVars, chatVars, imgDims, imgLoads, isInspectMode, isLoupeVisible, currentHtml, ops, invalidUsed >>
    /\ UNCHANGED << geo, simVars >>

\* variant of PointerMove whose onMove goes on to scan a valid target
PointerMoveScanning(m) ==
    /\ ProbeMounted
    /\ probe.isDragging
    /\ m \in ScreenPoints
    /\ LET newX == m.x - probe.dragOffset.x
           newY == m.y - probe.dragOffset.y
           tip == getTipPosition(newX, newY)
           mv == handleSmartToolMove(tip.x, tip.y, isInspectMode, imgDims)
       IN /\ probe' = [probe EXCEPT !.position = Pt(newX, newY)]
          /\ isLoupeVisible' = IF mv.run THEN mv.loupe ELSE isLoupeVisible
          /\ invalidUsed' = (invalidUsed \/ (mv.loupe /\ ~mv.target.valid))
          /\ lastInvalid' = IF mv.run /\ ~mv.target.valid THEN "move" ELSE "none"
          /\ IF mv.loupe
             THEN HandleScanQuery(imgDims)
             ELSE UNCHANGED << messages, isChatLoading, bioData, techData, ops >>
    /\ UNCHANGED << appVars, isPatching, imgDims, imgLoads, isInspectMode, autoPilotPos, currentHtml >>
    /\ UNCHANGED << geo, simVars >>

\* handleMouseMove / handleTouchMove, with onMove
PointerMove(m) ==
    /\ ProbeMounted
    /\ probe.isDragging
    /\ m \in ScreenPoints
    /\ LET newX == m.x - probe.dragOffset.x
           newY == m.y - probe.dragOffset.y
           tip == getTipPosition(newX, newY)
           mv == handleSmartToolMove(tip.x, tip.y, isInspectMode, imgDims)
       IN /\ probe' = [probe EXCEPT !.position = Pt(newX, newY)]
          /\ isLoupeVisible' = IF mv.run THEN mv.loupe ELSE isLoupeVisible
          /\ invalidUsed' = (invalidUsed \/ (mv.loupe /\ ~mv.target.valid))
          /\ lastInvalid' = IF mv.run /\ ~mv.target.valid THEN "move" ELSE "none"
    /\ UNCHANGED << appVars, chatVars, imgDims, imgLoads, isInspectMode, autoPilotPos, currentHtml, ops >>
    /\ UNCHANGED << geo, simVars >>

\* handleEnd (mouseup / touchend), with onDragEnd
PointerUp ==
    /\ ProbeMounted
    /\ probe.isDragging
    /\ LET tip == getTipPosition(probe.position.x, probe.position.y)
           r == handleProbeRelease(tip.x, tip.y, imgDims)
       IN /\ probe' = [probe EXCEPT !.isDragging = FALSE]
          /\ Release(r, imgDims)
          /\ invalidUsed' = (invalidUsed \/ (r.scan /\ ~r.target.valid))
    /\ UNCHANGED << appVars, isPatching, imgDims, imgLoads, isInspectMode, autoPilotPos, currentHtml >>
    /\ UNCHANGED << geo, simVars >>

\* the timer of the auto-pilot effect: onMove, then onDragEnd, both closures
\* of the render that started it
TimerFire ==
    /\ IsSome(probe.timer)
    /\ LET t == Val(probe.timer)
           mv == handleSmartToolMove(t.tip.x, t.tip.y, FALSE, t.dims)
           r == handleProbeRelease(t.tip.x, t.tip.y, t.dims)
       IN /\ probe' = [probe EXCEPT !.isAutoPiloting = FALSE, !.timer = None]
          /\ Release(r, t.dims)
          /\ invalidUsed' = (invalidUsed \/ (mv.loupe /\ ~mv.target.valid)
                                         \/ (r.scan /\ ~r.target.valid))
    /\ UNCHANGED << appVars, isPatching, imgDims, imgLoads, isInspectMode, autoPilotPos, currentHtml >>
    /\ UNCHANGED << geo, simVars >>

\* a click on the manual inspection overlay
InspectClick(p) ==
    /\ isInspectMode /\ IsSome(activeCreation) /\ ~isGenerating
    /\ p \in ScreenPoints
    /\ LET r == handleInspectClick(p.x, p.y, imgDims)
       IN /\ lastInvalid' = IF r.target.valid THEN "none" ELSE "click"
          /\ invalidUsed' = (invalidUsed \/ (r.scan /\ ~r.target.valid))
          /\ IF r.scan
             THEN HandleScanQuery(imgDims)
             ELSE UNCHANGED << chatVars, ops >>
    /\ UNCHANGED << appVars, isPatching, imgDims, imgLoads, isInspectMode, autoPilotPos,
                    isLoupeVisible, currentHtml, probe >>
    /\ UNCHANGED << geo, simVars >>

\* toggleInspectMode
ToggleInspectMode ==
    /\ IsSome(activeCreation) /\ ~isGenerating
    /\ isInspectMode' = ~isInspectMode
    /\ probe' = CommitProbe(ProbeMounted, Mounted(isGenerating, activeCreation, ~isInspectMode),
                            FALSE, autoPilotPos, imgDims, probe)
    /\ lastInvalid' = "none"
    /\ UNCHANGED << appVars, chatVars, imgDims, imgLoads, autoPilotPos, isLoupeVisible,
                    currentHtml, ops, invalidUsed >>
    /\ UNCHANGED << geo, simVars >>

\* onClose of the two data cards
CloseBioCard ==
    /\ IsSome(activeCreation) /\ ~isGenerating /\ IsSome(bioData)
    /\ bioData' = None
    /\ lastInvalid' = "none"
    /\ UNCHANGED << appVars, messages, isChatLoading, isPatching, techData, viewVars, probe,
                    ops, invalidUsed >>
    /\ UNCHANGED << geo, simVars >>

CloseTechCard ==
    /\ IsSome(activeCreation) /\ ~isGenerating /\ IsSome(techData)
    /\ techData' = None
    /\ lastInvalid' = "none"
    /\ UNCHANGED << appVars, messages, isChatLoading, isPatching, bioData, viewVars, probe,
                    ops, invalidUsed >>
    /\ UNCHANGED << geo, simVars >>

\* variant of Finish for a handler that lowers its flag in finally only
FinishInFinallyOnly(i, how, n) ==
    [ops EXCEPT ![i].pc = "done", ![i].outcome = how, ![i].resets = 1]

\* a request ends: it is resolved, with the branch that ended it and the
\* number of times its setIsChatLoading(false) statement ran
Finish(i, how, n) == [ops EXCEPT ![i].pc = "done", ![i].outcome = how, ![i].resets = n]

\* variant of Continue that goes straight to the generic analysis
ContinueToGeneric(i, at) ==
    [ops EXCEPT ![i].pc = "generic", ![i].calls = Append(@, "generic")]

\* a request goes on to its next await: the remote call named at
Continue(i, at) == [ops EXCEPT ![i].pc = at, ![i].calls = Append(@, at)]

\* handleScanQuery after analyzeBiologicalEntity settled
ScanBioResolve(i, resp) ==
    /\ InFlight(i) /\ ops[i].kind = "scan" /\ ops[i].pc = "bio"
    /\ resp \in BioResponses
    /\ LET r == analyzeBiologicalEntity(resp)
       IN IF r.isNull
          THEN \* reading a property of null throws: catch, then finally
               /\ messages' = Append(messages, Msg("ai", "none", "Scan failed. Signal lost.", i))
               /\ isChatLoading' = FALSE
               /\ ops' = Finish(i, "failed", 1)
               /\ UNCHANGED << bioData >>
          ELSE IF BioAccepted(r)
          THEN \* setIsChatLoading(false) before return, and again in finally
               /\ bioData' = Some([isBiological |-> r.isBiological,
                                   confidence |-> r.confidence, req |-> i])
               /\ messages' = Append(messages, Msg("ai", "scan", "Bio-Signature Detected", i))
               /\ isChatLoading' = FALSE
               /\ ops' = Finish(i, "bio", 2)
          ELSE /\ ops' = Continue(i, "tech")
               /\ UNCHANGED << bioData, messages, isChatLoading >>
    /\ lastInvalid' = "none"
    /\ UNCHANGED << appVars, isPatching, techData, viewVars, probe, invalidUsed >>
    /\ UNCHANGED << geo, simVars >>

\* handleScanQuery after analyzeTechnicalComponent settled
ScanTechResolve(i, resp) ==
    /\ InFlight(i) /\ ops[i].kind = "scan" /\ ops[i].pc = "tech"
    /\ resp \in TechResponses
    /\ LET r == analyzeTechnicalComponent(resp)
       IN IF r.isNull
          THEN /\ messages' = Append(messages, Msg("ai", "none", "Scan failed. Signal lost.", i))
               /\ isChatLoading' = FALSE
               /\ ops' = Finish(i, "failed", 1)
               /\ UNCHANGED << techData >>
          ELSE IF r.isTechnical
          THEN /\ techData' = Some([isTechnical |-> TRUE, req |-> i])
               /\ messages' = Append(messages,
                                     Msg("ai", "scan", "Mechanical Structure Identified", i))
               /\ isChatLoading' = FALSE
               /\ ops' = Finish(i, "tech", 2)
          ELSE /\ ops' = Continue(i, "generic")
               /\ UNCHANGED << techData, messages, isChatLoading >>
    /\ lastInvalid' = "none"
    /\ UNCHANGED << appVars, isPatching, bioData, viewVars, probe, invalidUsed >>
    /\ UNCHANGED << geo, simVars >>

\* variant of ScanGenericResolve that ends the scan without a message
ScanGenericResolveSilent(i, resp) ==
    /\ InFlight(i) /\ ops[i].kind = "scan" /\ ops[i].pc = "generic"
    /\ resp \in TextResponses
    /\ isChatLoading' = FALSE
    /\ ops' = Finish(i, "generic", 1)
    /\ lastInvalid' = "none"
    /\ UNCHANGED << appVars, messages, isPatching, bioData, techData, viewVars, probe, invalidUsed >>
    /\ UNCHANGED << geo, simVars >>

\* handleScanQuery after onAskQuestion settled (it never rejects)
ScanGenericResolve(i, resp) ==
    /\ InFlight(i) /\ ops[i].kind = "scan" /\ ops[i].pc = "generic"
    /\ resp \in TextResponses
    /\ messages' = Append(messages, Msg("ai", "none", askQuestion(resp), i))
    /\ isChatLoading' = FALSE
    /\ ops' = Finish(i, "generic", 1)
    /\ lastInvalid' = "none"
    /\ UNCHANGED << appVars, isPatching, bioData, techData, viewVars, probe, invalidUsed >>
    /\ UNCHANGED << geo, simVars >>

\* handleGlobalScan up to its await
GlobalScanStart ==
    /\ CanStart
    /\ IsSome(activeCreation) /\ ~isGenerating
    /\ HasImage(Val(activeCreation))
    /\ isChatLoading' = TRUE
    /\ messages' = Append(messages, Msg("user", "scan", "Initiating GLOBAL SCAN", NextOp))
    /\ ops' = [ops EXCEPT ![NextOp] = NewOp("global", "bio", None, "")]
    /\ lastInvalid' = "none"
    /\ UNCHANGED << appVars, isPatching, bioData, techData, viewVars, probe,
                    invalidUsed >>
    /\ UNCHANGED << geo, simVars >>

\* handleGlobalScan after analyzeBiologicalEntity settled
GlobalScanResolve(i, resp) ==
    /\ InFlight(i) /\ ops[i].kind = "global"
    /\ resp \in BioResponses
    /\ LET r == analyzeBiologicalEntity(resp)
       IN IF r.isNull
          THEN /\ messages' = Append(messages, Msg("ai", "none", "Global scan failed.", i))
               /\ ops' = Finish(i, "failed", 1)
               /\ UNCHANGED bioData
          ELSE IF r.isBiological
          THEN /\ bioData' = Some([isBiological |-> TRUE, confidence |-> r.confidence, req |-> i])
               /\ messages' = Append(messages, Msg("ai", "scan", "Primary Subject Identified", i))
               /\ ops' = Finish(i, "bio", 1)
          ELSE /\ messages' = Append(messages, Msg("ai", "scan", "Global scan complete.", i))
               /\ ops' = Finish(i, "none", 1)
               /\ UNCHANGED bioData
    /\ isChatLoading' = FALSE
    /\ lastInvalid' = "none"
    /\ UNCHANGED << appVars, isPatching, techData, viewVars, probe, invalidUsed >>
    /\ UNCHANGED << geo, simVars >>

(* ------------------- LivePreview: typed commands ----------------------- *)
\* the i flag of the two patterns: letters match in either case
Lower(w) == CASE w = "FIND" -> "find" [] w = "Fix" -> "fix" [] OTHER -> w
HasWord(msg, words) == \E k \in 1 .. Len(msg) : Lower(msg[k]) \in words
\* /find|locate|search|where is|cari|mana|detect/i.test(userMsg)
isFindRequest(userMsg) == HasWord(userMsg, LocateKeywords)
\* /fix|change|broken|doesn't work|add|remove|modify|adjust|salah|rosak|tak boleh/i
isModificationRequest(userMsg) == HasWord(userMsg, ModifyKeywords)

\* variant of Route that looks for a modification request first
RouteModifyFirst(userMsg, active) ==
    IF isModificationRequest(userMsg) THEN "patch"
    ELSE IF isFindRequest(userMsg) /\ IsSome(active) /\ HasImage(Val(active)) THEN "locate"
    ELSE "query"

\* the branch handleSendMessage takes
Route(userMsg, active) ==
    IF isFindRequest(userMsg) /\ IsSome(active) /\ HasImage(Val(active)) THEN "locate"
    ELSE IF isModificationRequest(userMsg) THEN "patch"
    ELSE "query"

\* refineSimulation: the document it resolves with.  A thrown call is caught
\* and answered with the document it was given; no text gives back the
\* stripped document with the image spliced back in, the same document.
refineSimulation(html, resp, i) ==
    IF resp = "text" THEN [base |-> html.base, patch |-> i] ELSE html

\* handleSendMessage up to its await (the form exists with a creation only)
SendMessage(userMsg) ==
    /\ CanStart
    /\ IsSome(activeCreation) /\ ~isGenerating
    /\ userMsg \in Inputs
    /\ LET route == Route(userMsg, activeCreation)
           said == Append(messages, Msg("user", "none", "user", NextOp))
       IN /\ messages' =
                CASE route = "locate" ->
                        Append(said, Msg("ai", "nav", "Scanning visual matrix...", NextOp))
                  [] route = "patch" ->
                        Append(said, Msg("ai", "text", "Analyzing code logic for repairs...", NextOp))
                  [] OTHER -> said
          /\ isPatching' = IF route = "patch" THEN TRUE ELSE isPatching
          /\ ops' = [ops EXCEPT ![NextOp] =
                        [NewOp(route, route, imgDims, "") EXCEPT !.html = currentHtml]]
    /\ isChatLoading' = TRUE
    /\ lastInvalid' = "none"
    /\ UNCHANGED << appVars, bioData, techData, viewVars, probe, invalidUsed >>
    /\ UNCHANGED << geo, simVars >>

\* the locate branch after locateObject settled; it has no try: reading
\* result.found of a null result throws out of the handler
LocateResolve(i, resp) ==
    /\ InFlight(i) /\ ops[i].kind = "locate"
    /\ resp \in LocateResponses
    /\ LET r == locateObject(resp)
           screenPos == pctToScreen(r.at.x, r.at.y, ops[i].dims)
       IN IF r.isNull
          THEN /\ ops' = [ops EXCEPT ![i].pc = "crashed", ![i].outcome = "crashed"]
               /\ UNCHANGED << messages, isChatLoading, autoPilotPos, probe >>
          ELSE /\ isChatLoading' = FALSE
               /\ IF r.found /\ IsSome(screenPos)
                  THEN /\ messages' = Append(messages, Msg("ai", "nav", "Target Acquired", i))
                       /\ autoPilotPos' = screenPos
                       /\ probe' = CommitProbe(ProbeMounted, ProbeMounted, TRUE, screenPos,
                                               imgDims, probe)
                       /\ ops' = Finish(i, "found", 1)
                  ELSE /\ messages' = Append(messages,
                              Msg("ai", "none",
                                  IF r.found THEN "Target found, but off-screen coordinates."
                                  ELSE "Negative contact.", i))
                       /\ ops' = Finish(i, IF r.found THEN "offscreen" ELSE "notfound", 1)
                       /\ UNCHANGED << autoPilotPos, probe >>
    /\ lastInvalid' = "none"
    /\ UNCHANGED << appVars, isPatching, bioData, techData, imgDims, imgLoads, isInspectMode,
                    isLoupeVisible, currentHtml, invalidUsed >>
    /\ UNCHANGED << geo, simVars >>

\* the patch branch after refineSimulation settled
PatchResolve(i, resp) ==
    /\ InFlight(i) /\ ops[i].kind = "patch"
    /\ resp \in TextResponses
    /\ currentHtml' = refineSimulation(ops[i].html, resp, i)
    /\ isRunning' = FrameAfter(isGenerating, activeCreation, refineSimulation(ops[i].html, resp, i))
    /\ isPlaying' = isPlaying
    /\ messages' = Append(messages, Msg("ai", "patch", "System patched. Logic updated.", i))
    /\ isPatching' = FALSE
    /\ isChatLoading' = FALSE
    /\ ops' = Finish(i, "patched", 1)
    /\ lastInvalid' = "none"
    /\ UNCHANGED << appVars, bioData, techData, imgDims, imgLoads, isInspectMode,
                    autoPilotPos, isLoupeVisible, probe,
                    invalidUsed >>
    /\ UNCHANGED geo

\* the general branch after onAskQuestion settled (it never rejects)
QueryResolve(i, resp) ==
    /\ InFlight(i) /\ ops[i].kind = "query"
    /\ resp \in TextResponses
    /\ messages' = Append(messages, Msg("ai", "none", askQuestion(resp), i))
    /\ isChatLoading' = FALSE
    /\ ops' = Finish(i, "answered", 1)
    /\ lastInvalid' = "none"
    /\ UNCHANGED << appVars, isPatching, bioData, techData, viewVars, probe, invalidUsed >>
    /\ UNCHANGED << geo, simVars >>

(* ------------------------- specification ------------------------------- *)
\* The preview session of one imported creation: the probe, manual
\* inspection and the scans they start.
Next ==
    \/ \E f \in NewFiles : Len(history) < MaxSessionCreations /\ ImportFile(f)
    \/ \E d \in imgLoads : ImageLoaded(d)
    \/ \E off \in GrabOffsets : PointerDown(off)
    \/ \E m \in ScreenPoints : PointerMove(m)
    \/ PointerUp
    \/ \E p \in ScreenPoints : InspectClick(p)
    \/ ToggleInspectMode
    \/ CloseBioCard
    \/ CloseTechCard
    \/ \E i \in OpIds, resp \in BioResponses : ScanBioResolve(i, resp)
    \/ \E i \in OpIds, resp \in TechResponses : ScanTechResolve(i, resp)
    \/ \E i \in OpIds, resp \in TextResponses : ScanGenericResolve(i, resp)

Init == Constructed(MaxOps)
Spec == Init /\ [][Next]_vars

\* The preview session of one imported creation: the probe, the console's
\* typed commands, auto-navigation, and the scans they start.
NextChat ==
    \/ \E f \in NewFiles : Len(history) < MaxSessionCreations /\ ImportFile(f)
    \/ \E d \in imgLoads : ImageLoaded(d)
    \/ \E off \in GrabOffsets : PointerDown(off)
    \/ \E m \in ScreenPoints : PointerMove(m)
    \/ PointerUp
    \/ TimerFire
    \/ \E i \in OpIds, resp \in BioResponses : ScanBioResolve(i, resp)
    \/ \E i \in OpIds, resp \in TechResponses : ScanTechResolve(i, resp)
    \/ \E i \in OpIds, resp \in TextResponses : ScanGenericResolve(i, resp)
    \/ \E userMsg \in Inputs : SendMessage(userMsg)
    \/ \E i \in OpIds, resp \in LocateResponses : LocateResolve(i, resp)
    \/ \E i \in OpIds, resp \in TextResponses : PatchResolve(i, resp)
    \/ \E i \in OpIds, resp \in TextResponses : QueryResolve(i, resp)

SpecChat == Init /\ [][NextChat]_vars

\* The application around one request: creations are generated, imported,
\* selected and closed while the request is in flight.  (The auto-navigation
\* timer is left out: its release needs a second request.)
NextApp ==
    \/ \E kd \in Kinds : GenerateStart(kd)
    \/ \E i \in OpIds, resp \in {"throw", "text"} :
          (resp = "throw" \/ Len(history) < MaxSessionCreations) /\ GenerateResolve(i, resp)
    \/ \E k \in 1 .. MaxCreations : SelectCreation(k)
    \/ Reset
    \/ \E f \in ImportFiles :
          (f.id \in HistoryIds \/ ~f.valid \/ Len(history) < MaxSessionCreations) /\ ImportFile(f)
    \/ \E d \in imgLoads : ImageLoaded(d)
    \/ \E off \in GrabOffsets : PointerDown(off)
    \/ \E m \in ScreenPoints : PointerMove(m)
    \/ PointerUp
    \/ \E p \in ScreenPoints : InspectClick(p)
    \/ ToggleInspectMode
    \/ CloseBioCard
    \/ CloseTechCard
    \/ \E i \in OpIds, resp \in BioResponses : ScanBioResolve(i, resp)
    \/ \E i \in OpIds, resp \in TechResponses : ScanTechResolve(i, resp)
    \/ \E i \in OpIds, resp \in TextResponses : ScanGenericResolve(i, resp)
    \/ GlobalScanStart
    \/ \E i \in OpIds, resp \in BioResponses : GlobalScanResolve(i, resp)
    \/ \E userMsg \in Inputs : SendMessage(userMsg)
    \/ \E i \in OpIds, resp \in LocateResponses : LocateResolve(i, resp)
    \/ \E i \in OpIds, resp \in TextResponses : PatchResolve(i, resp)
    \/ \E i \in OpIds, resp \in TextResponses : QueryResolve(i, resp)

InitApp == Constructed(MaxAppOps)
SpecApp == InitApp /\ [][NextApp]_vars

\* The creations of the application: generated, imported, selected from the
\* history and closed, with no use of the preview.
NextHistory ==
    \/ \E kd \in Kinds : GenerateStart(kd)
    \/ \E i \in OpIds, resp \in {"throw", "text"} : GenerateResolve(i, resp)
    \/ \E k \in 1 .. MaxCreations : SelectCreation(k)
    \/ Reset
    \/ \E f \in ImportFiles : ImportFile(f)
    \/ \E d \in imgLoads : ImageLoaded(d)

InitHistory == Constructed(MaxAppOps)
SpecHistory == InitHistory /\ [][NextHistory]_vars

\* Auto-navigation around the manual-click inspection mode: typed commands,
\* the timer of the probe and its scans, and the toggle that unmounts and
\* remounts the probe; the probe is not dragged.
NextNav ==
    \/ \E f \in NewFiles : Len(history) < MaxSessionCreations /\ ImportFile(f)
    \/ \E d \in imgLoads : ImageLoaded(d)
    \/ ToggleInspectMode
    \/ TimerFire
    \/ \E i \in OpIds, resp \in BioResponses : ScanBioResolve(i, resp)
    \/ \E i \in OpIds, resp \in TechResponses : ScanTechResolve(i, resp)
    \/ \E i \in OpIds, resp \in TextResponses : ScanGenericResolve(i, resp)
    \/ \E userMsg \in Inputs : SendMessage(userMsg)
    \/ \E i \in OpIds, resp \in LocateResponses : LocateResolve(i, resp)
    \/ \E i \in OpIds, resp \in TextResponses : PatchResolve(i, resp)
    \/ \E i \in OpIds, resp \in TextResponses : QueryResolve(i, resp)

SpecNav == Init /\ [][NextNav]_vars

(* ------------------------- the simulation switch ----------------------- *)
\* toggleSimulation: the button is rendered with the iframe, and the message
\* reaches the listener of the document the iframe holds
toggleSimulation ==
    /\ FrameMounted(isGenerating, activeCreation)
    /\ isPlaying' = ~isPlaying
    /\ isRunning' = ~isPlaying
    /\ UNCHANGED << appVars, chatVars, viewVars, probe, ops, obsVars, geo >>

\* The preview with its simulation switch and its console: creations are
\* imported, selected and closed, the switch is pressed, and messages are
\* sent and answered.
NextSim ==
    \/ \E f \in NewFiles : Len(history) < MaxCreations /\ ImportFile(f)
    \/ \E k \in 1 .. Len(history) : SelectCreation(k)
    \/ Reset
    \/ toggleSimulation
    \/ \E userMsg \in Inputs : SendMessage(userMsg)
    \/ \E i \in OpIds, resp \in LocateResponses : LocateResolve(i, resp)
    \/ \E i \in OpIds, resp \in TextResponses : PatchResolve(i, resp)
    \/ \E i \in OpIds, resp \in TextResponses : QueryResolve(i, resp)

SpecSim == InitApp /\ [][NextSim]_vars

(* ---------------------- refineSimulation on text ----------------------- *)
\* The pieces of a document: the tag <img id="source-image" src="..."> with
\* the image payload or with the placeholder token as its src, the payload
\* or the token anywhere else (generateSimulation puts the payload wherever
\* the generated text holds the token), and other text.
Pieces == {"img:data", "img:ph", "data", "ph", "text"}
MaxPieces == 3
Documents == UNION { [1 .. n -> Pieces] : n \in 1 .. MaxPieces }
\* a document the remote can answer with: it holds the token twice
PatchedDocument == << "text", "img:ph", "ph" >>
\* what the remote call of refineSimulation does: throws, answers with no
\* text, with the text it was sent, or with another document
PatchResponses == {"throw", "empty", "echo", "other"}

\* the place of the first piece of doc that is in S, or 0
FirstOf(doc, S) ==
    LET K == { k \in 1 .. Len(doc) : doc[k] \in S }
    IN IF K = {} THEN 0 ELSE CHOOSE k \in K : \A j \in K : k <= j

\* currentHtml.match(imgRegex) and currentHtml.replace(imgRegex, ...): the
\* first source-image tag loses its src to the token; data is what the src
\* was ("" without a match)
stripImage(doc) ==
    LET k == FirstOf(doc, {"img:data", "img:ph"})
    IN IF k = 0 THEN [stripped |-> doc, data |-> ""]
       ELSE [stripped |-> [doc EXCEPT ![k] = "img:ph"],
             data |-> IF doc[k] = "img:data" THEN "data" ELSE "ph"]

\* newHtml.replace(imagePlaceholder, originalImageData), when
\* originalImageData is not empty: the first token of the text becomes the
\* payload, in the tag or elsewhere
spliceImage(newHtml, data) ==
    LET k == FirstOf(newHtml, {"img:ph", "ph"})
    IN IF data # "data" \/ k = 0 THEN newHtml
       ELSE [newHtml EXCEPT ![k] = IF @ = "img:ph" THEN "img:data" ELSE "data"]

\* the document refineSimulation resolves with (the code fences it removes
\* are not modelled: no document starts or ends with one)
refineSimulationOf(doc, resp) ==
    LET st == stripImage(doc)
    IN CASE resp = "throw" -> doc
         [] resp = "other" -> spliceImage(PatchedDocument, st.data)
         [] OTHER -> spliceImage(st.stripped, st.data)

\* refineSimulation(currentHtml, instruction) up to its await: arg is the
\* code it puts into the prompt
RefineSend ==
    /\ CanStart
    /\ ops' = [ops EXCEPT ![NextOp] =
                 [NewOp("patch", "patch", None, stripImage(currentHtml).stripped)
                    EXCEPT !.html = currentHtml]]
    /\ UNCHANGED << appVars, chatVars, viewVars, simVars, probe, obsVars, geo >>

\* refineSimulation after generateContent settled, and setCurrentHtml with
\* the document it resolved with
RefineReturn(i, resp) ==
    /\ InFlight(i) /\ ops[i].kind = "patch"
    /\ resp \in PatchResponses
    /\ currentHtml' = refineSimulationOf(ops[i].html, resp)
    /\ ops' = Finish(i, resp, 1)
    /\ UNCHANGED << appVars, chatVars, imgDims, imgLoads, isInspectMode, autoPilotPos,
                    isLoupeVisible, simVars, probe, obsVars, geo >>

NextPatch ==
    \/ RefineSend
    \/ \E i \in OpIds, resp \in PatchResponses : RefineReturn(i, resp)

\* a creation's document is loaded, and one patch can be asked for
InitPatch ==
    /\ activeCreation = None
    /\ isGenerating = FALSE
    /\ history = << >>
    /\ messages = << >>
    /\ isChatLoading = FALSE
    /\ isPatching = FALSE
    /\ bioData = None
    /\ techData = None
    /\ imgDims = None
    /\ imgLoads = {}
    /\ isInspectMode = FALSE
    /\ autoPilotPos = None
    /\ isLoupeVisible = FALSE
    /\ currentHtml \in Documents
    /\ probe = InitProbe
    /\ ops = [i \in 1 .. MaxAppOps |-> NoOp]
    /\ lastInvalid = "none"
    /\ invalidUsed = FALSE
    /\ isPlaying = FALSE
    /\ isRunning = FALSE
    /\ geo = NoGeo

SpecPatch == InitPatch /\ [][NextPatch]_vars

\* calculateImageCoordinates(e.clientX, e.clientY) in a render whose container
\* and imgDims are those of geo; fit keeps the displayed size and offsets it
\* computed on the way, when imgDims is known
MapPoint ==
    /\ ~IsSome(geo.target)
    /\ geo' = [geo EXCEPT !.target = Some(calculateImageCoordinatesIn(
                                geo.container, geo.point.x, geo.point.y, geo.dims)),
                          !.fit = IF IsSome(geo.dims)
                                  THEN Some(ContainFit(geo.container, Val(geo.dims)))
                                  ELSE None]
    /\ UNCHANGED << appVars, chatVars, viewVars, simVars, probe, ops, obsVars >>

\* the percentages the inverse mapping can be given: those of a found
\* object, and those the forward mapping gave for the point when they are
\* valid and numbers
BackInputs ==
    GeoPcts \cup
    IF /\ IsSome(geo.target)
       /\ Val(geo.target).valid
       /\ ~Val(geo.target).xNaN
       /\ ~Val(geo.target).yNaN
    THEN { [x |-> Val(geo.target).xPct, y |-> Val(geo.target).yPct] }
    ELSE {}

\* pctToScreen(q.x, q.y) in the same render; at is its result (null or a
\* position), of the percentages it was given
MapBack(q) ==
    /\ ~IsSome(geo.back)
    /\ q \in BackInputs
    /\ geo' = [geo EXCEPT !.back = Some([of |-> q,
                                         at |-> pctToScreenIn(geo.container, q.x, q.y,
                                                              geo.dims)])]
    /\ UNCHANGED << appVars, chatVars, viewVars, simVars, probe, ops, obsVars >>

\* The two coordinate mappings, applied to one point each.
NextGeometry ==
    \/ MapPoint
    \/ \E q \in BackInputs : MapBack(q)

InitGeometry ==
    /\ activeCreation = None
    /\ isGenerating = FALSE
    /\ history = << >>
    /\ messages = << >>
    /\ isChatLoading = FALSE
    /\ isPatching = FALSE
    /\ bioData = None
    /\ techData = None
    /\ imgDims = None
    /\ imgLoads = {}
    /\ isInspectMode = FALSE
    /\ autoPilotPos = None
    /\ isLoupeVisible = FALSE
    /\ currentHtml = EmptyHtml
    /\ probe = InitProbe
    /\ ops = [i \in 1 .. MaxOps |-> NoOp]
    /\ lastInvalid = "none"
    /\ invalidUsed = FALSE
    /\ isPlaying = FALSE
    /\ isRunning = FALSE
    /\ geo \in { Unmapped(c, d, p) : c \in GeoContainers, d \in GeoDims, p \in GeoPoints }

SpecGeometry == InitGeometry /\ [][NextGeometry]_vars

\* cropImage(target.xPct, target.yPct) of handleScanQuery, for the target and
\* the imgDims of geo
CropTarget ==
    /\ IsSome(geo.target)
    /\ Val(geo.target).valid
    /\ IsSome(geo.dims)
    /\ ~IsSome(geo.crop)
    /\ geo' = [geo EXCEPT !.crop = Some(cropWindow(Val(geo.target).xPct,
                                                  Val(geo.target).yPct, Val(geo.dims)))]
    /\ UNCHANGED << appVars, chatVars, viewVars, simVars, probe, ops, obsVars >>

\* The crop of one target.
NextCrop == CropTarget

\* a target was mapped on an image whose dimensions are known
InitCrop ==
    /\ activeCreation = None
    /\ isGenerating = FALSE
    /\ history = << >>
    /\ messages = << >>
    /\ isChatLoading = FALSE
    /\ isPatching = FALSE
    /\ bioData = None
    /\ techData = None
    /\ imgDims = None
    /\ imgLoads = {}
    /\ isInspectMode = FALSE
    /\ autoPilotPos = None
    /\ isLoupeVisible = FALSE
    /\ currentHtml = EmptyHtml
    /\ probe = InitProbe
    /\ ops = [i \in 1 .. MaxOps |-> NoOp]
    /\ lastInvalid = "none"
    /\ invalidUsed = FALSE
    /\ isPlaying = FALSE
    /\ isRunning = FALSE
    /\ geo \in { [Unmapped(ContainerRect, Some([width |-> w, height |-> h]), Pt(0, 0))
                   EXCEPT !.target = Some(Target([nan |-> FALSE, v |-> x],
                                                 [nan |-> FALSE, v |-> y], TRUE))] :
                    w \in CropSides, h \in CropSides, x \in CropPcts, y \in CropPcts }

SpecCrop == InitCrop /\ [][NextCrop]_vars

(* --------------------------- properties -------------------------------- *)
IsScan(i) == ops[i].kind = "scan"
Last(q) == q[Len(q)]
\* a crop can be made in this render: a source file, and known image dimensions
CropAvailable == IsSome(activeCreation) /\ Val(activeCreation).kind # "none" /\ IsSome(imgDims)
\* request i takes this step from an await to its end
Resolves(i) == InFlight(i) /\ ops'[i].pc = "done"
\* this step ends request i with one more message of the preview in the log
\* and without a further remote call
StopsWithMessage(i) ==
    /\ ops'[i].pc = "done"
    /\ ops'[i].calls = ops[i].calls
    /\ Len(messages') = Len(messages) + 1
    /\ Last(messages').role = "ai"
    /\ Last(messages').op = i

\* C1: when a scan resolves after a scan issued later than it has already
\* resolved, its completion is discarded: the data cards and the busy flag
\* stay as the later scan left them.
C1_LateCompletionDiscarded ==
    [][\A i \in OpIds :
          (/\ IsScan(i)
           /\ Resolves(i)
           /\ \E j \in OpIds : j > i /\ IsScan(j) /\ Resolved(j))
          => /\ bioData' = bioData
             /\ techData' = techData
             /\ isChatLoading' = isChatLoading]_vars

\* C2: when the remote call of a step of the scan chain fails (the call
\* throws), the step appends a message to the log and ends the scan without
\* invoking a further analyzer.
C2_RemoteFailureStopsChain ==
    [][\A i \in OpIds :
          /\ \A resp \in BioResponses :
                (resp.status = "throw" /\ ScanBioResolve(i, resp)) => StopsWithMessage(i)
          /\ \A resp \in TechResponses :
                (resp.status = "throw" /\ ScanTechResolve(i, resp)) => StopsWithMessage(i)
          /\ ScanGenericResolve(i, "throw") => StopsWithMessage(i)]_vars

\* this step records the biological result of request i and ends the chain
RecordsBio(i, resp) ==
    /\ ops'[i].pc = "done"
    /\ ops'[i].outcome = "bio"
    /\ ops'[i].calls = << "bio" >>
    /\ bioData' = Some([isBiological |-> TRUE, confidence |-> resp.confidence, req |-> i])

\* C3 as stated: an affirmative biological answer with a confidence of 50 or
\* more is recorded as the result and ends the chain.
C3_AcceptedAtOrAbove50 ==
    [][\A i \in OpIds, resp \in BioResponses :
          (/\ resp.status = "object"
           /\ resp.isBiological
           /\ resp.confidence >= 50
           /\ ScanBioResolve(i, resp))
          => RecordsBio(i, resp)]_vars

\* C3 amended: an affirmative biological answer is recorded as the result and
\* ends the chain exactly when its confidence is above 50; at 50 or below the
\* cards stay as they are and the technical analyzer is invoked.
C3_AcceptedAbove50 ==
    [][\A i \in OpIds, resp \in BioResponses :
          (resp.status = "object" /\ ScanBioResolve(i, resp))
          => IF resp.isBiological /\ resp.confidence > 50
             THEN RecordsBio(i, resp)
             ELSE /\ ops'[i].pc = "tech"
                  /\ ops'[i].calls = << "bio", "tech" >>
                  /\ bioData' = bioData]_vars

\* a scan recorded a biological answer of confidence 51
C3_Witness ==
    \E i \in OpIds :
        /\ IsScan(i) /\ Resolved(i) /\ ops[i].outcome = "bio"
        /\ bioData = Some([isBiological |-> TRUE, confidence |-> 51, req |-> i])

\* C4 as stated: the generic analysis is invoked only after the technical
\* analyzer, and the technical analyzer only after the biological one.
C4_GenericOnlyAfterTechnical ==
    [][\A i \in OpIds :
          (ops'[i].kind = "scan" /\ ops'[i].calls # ops[i].calls)
          => \/ Last(ops'[i].calls) = "bio" /\ ~Started(i)
             \/ Last(ops'[i].calls) = "tech" /\ ops[i].pc = "bio"
             \/ Last(ops'[i].calls) = "generic" /\ ops[i].pc = "tech"]_vars

\* C4 amended: a scan with a crop starts with the biological analyzer, a scan
\* without one starts with the generic analysis; the technical analyzer is
\* invoked only by the step that got a biological answer that is not
\* accepted, the generic analysis otherwise only by the step that got a
\* technical answer that is not affirmative; an affirmative technical answer
\* is recorded as the result without a further call.
C4_ChainOrder ==
    [][\A i \in OpIds :
          /\ (ops'[i].kind = "scan" /\ ops'[i].calls # ops[i].calls)
             => \/ /\ ~Started(i)
                   /\ ops'[i].calls = IF CropAvailable THEN << "bio" >> ELSE << "generic" >>
                \/ /\ ops[i].calls = << "bio" >>
                   /\ ops'[i].calls = << "bio", "tech" >>
                   /\ \E resp \in BioResponses :
                         /\ ScanBioResolve(i, resp)
                         /\ ~(resp.status = "object" /\ resp.isBiological
                              /\ resp.confidence > 50)
                \/ /\ ops[i].calls = << "bio", "tech" >>
                   /\ ops'[i].calls = << "bio", "tech", "generic" >>
                   /\ \E resp \in TechResponses :
                         /\ ScanTechResolve(i, resp)
                         /\ ~(resp.status = "object" /\ resp.isTechnical)
          /\ \A resp \in TechResponses :
                (resp.status = "object" /\ resp.isTechnical /\ ScanTechResolve(i, resp))
                => /\ ops'[i].pc = "done"
                   /\ ops'[i].calls = << "bio", "tech" >>
                   /\ techData' = Some([isTechnical |-> TRUE, req |-> i])]_vars

\* one scan went through the whole chain, another went straight to the
\* generic analysis
C4_Witness ==
    \E i, j \in OpIds :
        /\ IsScan(i) /\ ops[i].calls = << "bio", "tech", "generic" >>
        /\ IsScan(j) /\ ops[j].calls = << "generic" >>

C6_NoIndicatorWithoutOperation ==
    /\ isChatLoading =>
          \E i \in OpIds :
              InFlight(i) /\ ops[i].kind \in {"scan", "global", "locate", "patch", "query"}
    /\ isPatching => \E i \in OpIds : InFlight(i) /\ ops[i].kind = "patch"
    /\ isGenerating => \E i \in OpIds : InFlight(i) /\ ops[i].kind = "generate"

\* C7: while a scan is in flight (and the model has a request left), the
\* probe can be grabbed wherever it is shown, a release over the image starts
\* a request, and every typed command is accepted and starts a request.
C7_NotBlockedByScanInFlight ==
    LET n == NextOp
        tip == getTipPosition(probe.position.x, probe.position.y)
    IN (CanStart /\ \E i \in OpIds : IsScan(i) /\ InFlight(i))
       => /\ Mounted(isGenerating, activeCreation, isInspectMode)
             => \A off \in GrabOffsets : ENABLED PointerDown(off)
          /\ (/\ Mounted(isGenerating, activeCreation, isInspectMode)
              /\ probe.isDragging
              /\ calculateImageCoordinates(tip.x, tip.y, imgDims).valid)
             => ENABLED (PointerUp /\ ops'[n].kind = "scan")
          /\ (IsSome(activeCreation) /\ ~isGenerating)
             => \A userMsg \in Inputs :
                   ENABLED (SendMessage(userMsg) /\ ops'[n].kind \in {"locate", "patch", "query"})

\* a scan started by a release while an earlier scan was awaiting its answer
C7_Witness ==
    \E i, j \in OpIds :
        /\ i < j
        /\ IsScan(i) /\ InFlight(i)
        /\ IsScan(j) /\ InFlight(j)
        /\ isChatLoading

\* C8: no crop, magnifier update or scan was given a target whose valid flag
\* is FALSE.
C8_InvalidTargetNeverUsed == ~invalidUsed

\* the probe moved over the letterbox with scans started before
C8_Witness ==
    /\ lastInvalid = "move"
    /\ \E i \in OpIds : IsScan(i)
    /\ ~isLoupeVisible

C10_InvalidTargetSurfaced ==
    [][lastInvalid' \in {"release", "click"}
       => /\ Len(messages') = Len(messages) + 1
          /\ ops' = ops]_vars

\* C11: a release or an inspection click on a valid target while no crop can
\* be made (no source image, or its dimensions unknown) still starts a scan:
\* the busy flag is raised and the generic analysis is called, without a
\* biological or technical call; the step that gets its answer appends one
\* message of the preview for it, lowers the flag and ends the scan.
C11_ScanWithoutCropProceeds ==
    [][\A n \in OpIds :
          /\ (/\ PointerUp \/ \E p \in ScreenPoints : InspectClick(p)
              /\ lastInvalid' = "none"
              /\ ~CropAvailable
              /\ n = NextOp)
             => /\ ops'[n].kind = "scan"
                /\ ops'[n].pc = "generic"
                /\ ops'[n].calls = << "generic" >>
                /\ isChatLoading'
          /\ \A resp \in TextResponses :
                (ops[n].calls = << "generic" >> /\ ScanGenericResolve(n, resp))
                => /\ messages' = Append(messages, Msg("ai", "none", askQuestion(resp), n))
                   /\ ~isChatLoading'
                   /\ ops'[n].pc = "done"
                   /\ ops'[n].calls = << "generic" >>
                   /\ ops'[n].resets = 1]_vars

\* a scan released over a creation without a source image got its answer
\* from the generic analysis alone
C11_Witness ==
    \E i \in OpIds :
        /\ IsScan(i) /\ Resolved(i)
        /\ ops[i].calls = << "generic" >> /\ ops[i].outcome = "generic"
        /\ ~CropAvailable
        /\ lastInvalid = "none"
        /\ Len(messages) > 0 /\ Last(messages) = Msg("ai", "none", "answer", i)
        /\ ~isChatLoading

\* the handler of request i is still running or ran to its end after this step
Recovered(i) == ops'[i].pc \in {"tech", "generic", "done"}

\* C12: a remote call that throws, answers with no text, with text that is not
\* JSON or with JSON that is not an object is recovered from: the handler that
\* awaited it goes on or ends, and no exception escapes it.
C12_RemoteFailureRecovered ==
    [][\A i \in OpIds :
          /\ \A resp \in BioResponses :
                (resp.status # "object" /\ (ScanBioResolve(i, resp) \/ GlobalScanResolve(i, resp)))
                => Recovered(i)
          /\ \A resp \in TechResponses :
                (resp.status # "object" /\ ScanTechResolve(i, resp)) => Recovered(i)
          /\ \A resp \in LocateResponses :
                (resp.status # "object" /\ LocateResolve(i, resp))
                => Recovered(i) /\ ops'[i].outcome = "notfound"
          /\ \A resp \in TextResponses \ {"text"} :
                (\/ ScanGenericResolve(i, resp)
                 \/ PatchResolve(i, resp)
                 \/ QueryResolve(i, resp)
                 \/ GenerateResolve(i, resp))
                => Recovered(i)]_vars

\* the pending timer is the one of the current navigation target
TimerIsForTarget ==
    IsSome(probe.timer)
    => /\ IsSome(autoPilotPos)
       /\ Val(probe.timer).tip = Pt(Val(autoPilotPos).x + TipDX, Val(autoPilotPos).y + TipDY)

\* C13: a pointer-down on the probe clears the navigation target and the
\* timer pending for it, and a pending timer is always the one of the
\* current target: the timer of a target that a pointer-down cancelled
\* never fires, so no move or release is emitted for it.
C13_PointerDownCancelsTarget ==
    [][/\ TimerIsForTarget'
       /\ \A off \in GrabOffsets :
             PointerDown(off)
             => /\ autoPilotPos' = None
                /\ probe'.timer = None
                /\ ~probe'.isAutoPiloting
       /\ TimerFire => IsSome(probe.timer) /\ IsSome(autoPilotPos)]_vars

\* the probe was grabbed after a target was found and before its timer
\* fired: the target and the timer are gone and no scan was ever started
C13_Witness ==
    /\ \E i \in OpIds : ops[i].kind = "locate" /\ ops[i].outcome = "found"
    /\ probe.isDragging
    /\ probe.position = Val(pctToScreen(50, 50, imgDims))
    /\ probe.timer = None
    /\ autoPilotPos = None
    /\ \A i \in OpIds : ~IsScan(i)

\* the controller of the probe is Idle: neither dragged nor auto-navigating
Idle(p) == ~p.isDragging /\ ~p.isAutoPiloting /\ ~IsSome(p.timer)

\* this step hands one release at (tipX, tipY) to the preview: a scan is
\* started for a valid target, the "no signal" message is appended otherwise
EmitsRelease(tipX, tipY, dims) ==
    IF calculateImageCoordinates(tipX, tipY, dims).valid
    THEN /\ CanStart
         /\ ops' = [ops EXCEPT ![NextOp] = ops'[NextOp]]
         /\ ops'[NextOp].kind = "scan"
         /\ messages' = Append(messages, Msg("user", "scan", "Scanning coordinates", NextOp))
    ELSE /\ ops' = ops
         /\ messages' = Append(messages, NoSignalMsg)

\* C14: a pointer-up while the probe is dragged returns the controller to
\* Idle and emits one release at ProbePosition + (28, 80), after which no
\* further pointer-up is taken until the next pointer-down; a pointer-up
\* while the probe is not dragged emits nothing.
C14_PointerUpEndsDrag ==
    /\ [](~probe.isDragging => ~ENABLED PointerUp)
    /\ [][PointerUp
           => /\ Idle(probe')
              /\ EmitsRelease(probe.position.x + 28, probe.position.y + 80, imgDims)]_vars

Starts(k) == \E i \in OpIds : ~Started(i) /\ ops'[i].kind = k

\* handling a move leaves the busy flag, the log and the requests alone
MoveOnlyUpdatesMagnifier ==
    \A m \in ScreenPoints :
        PointerMove(m)
        => /\ isChatLoading' = isChatLoading
           /\ messages' = messages
           /\ ops' = ops
           /\ UNCHANGED << appVars, isPatching, bioData, techData, imgDims, isInspectMode,
                           autoPilotPos, currentHtml >>

\* C17 as stated: a scan request is started only by the step of a release
\* (a pointer-up of a drag or the timer of auto-navigation), and handling a
\* move leaves the busy flag, the log and the requests alone.
C17_ReleaseSoleTrigger ==
    [][/\ Starts("scan") => (PointerUp \/ TimerFire)
       /\ MoveOnlyUpdatesMagnifier]_vars

\* C17 amended: a scan request is started only by the step of a release or
\* of a click on the manual inspection overlay, a whole-image scan only by
\* its button; handling a move leaves the busy flag, the log and the
\* requests alone.
C17_ScanTriggers ==
    [][/\ Starts("scan") => (PointerUp \/ TimerFire \/ \E p \in ScreenPoints : InspectClick(p))
       /\ Starts("global") => GlobalScanStart
       /\ MoveOnlyUpdatesMagnifier]_vars

\* after a move that showed the magnifier the preview went to manual
\* inspection, where a scan is in flight
C17_Witness ==
    /\ isInspectMode
    /\ isLoupeVisible
    /\ \E i \in OpIds : IsScan(i) /\ InFlight(i) /\ Last(messages).op = i
    /\ isChatLoading

\* this step makes another creation object the active one, or none
CreationChanges ==
    \/ activeCreation' # activeCreation
    \/ \E f \in ImportFiles : f.valid /\ ImportFile(f)
    \/ \E k \in 1 .. Len(history) : SelectCreation(k)

\* C18: ProbePosition is left alone by the steps of a scan, and is the
\* default top-right position after every step that changes the active
\* creation (a direct replacement by import included) or that turns manual
\* inspection on.
C18_PositionLifecycle ==
    [][/\ (\E i \in OpIds : ops'[i].kind = "scan" /\ ops'[i] # ops[i])
          => probe'.position = probe.position
       /\ CreationChanges => probe'.position = DefaultPosition
       /\ (~isInspectMode /\ isInspectMode') => probe'.position = DefaultPosition]_vars

\* C19: whenever a creation is active and image dimensions are stored, the
\* creation has a raster source image and the dimensions are its natural
\* size.
C19_DimsBelongToCurrent ==
    (IsSome(imgDims) /\ IsSome(activeCreation))
    => /\ IsRaster(Val(activeCreation))
       /\ Val(imgDims) = NaturalDims(Val(activeCreation))

\* this step starts exactly one request, of handler k, at its remote call
DispatchesOnly(k) ==
    LET n == NextOp
    IN /\ ops'[n].kind = k
       /\ ops'[n].calls = << k >>
       /\ \A j \in OpIds \ {n} : ops'[j] = ops[j]

\* C20 as stated: a submitted command with a Locate keyword (in either case)
\* is dispatched as Locate, also when it has a Modify keyword; one with no
\* Locate keyword and a Modify keyword as Modify; every other as Query; and
\* exactly one request is started.
C20_LocateKeywordFirst ==
    [][\A userMsg \in Inputs :
          SendMessage(userMsg)
          => DispatchesOnly(IF HasWord(userMsg, LocateKeywords) THEN "locate"
                            ELSE IF HasWord(userMsg, ModifyKeywords) THEN "patch"
                            ELSE "query")]_vars

\* C20 amended: a submitted command with a Locate keyword (in either case)
\* is dispatched as Locate when the active creation has a source file, also
\* when it has a Modify keyword; any other command with a Modify keyword as
\* Modify; every other as Query; and exactly one request is started.
C20_LocateNeedsSourceImage ==
    [][\A userMsg \in Inputs :
          SendMessage(userMsg)
          => DispatchesOnly(IF /\ HasWord(userMsg, LocateKeywords)
                               /\ Val(activeCreation).kind # "none"
                            THEN "locate"
                            ELSE IF HasWord(userMsg, ModifyKeywords) THEN "patch"
                            ELSE "query")]_vars

\* with a creation without a source file, a command with a Locate keyword
\* was dispatched as Query, and one with both keywords goes to Modify
C20_Witness ==
    LET n == NextOp
    IN /\ IsSome(activeCreation) /\ Val(activeCreation).kind = "none"
       /\ \E i \in OpIds : ops[i].kind = "query" /\ InFlight(i)
       /\ \A i \in OpIds : ops[i].kind # "locate"
       /\ CanStart
       /\ ENABLED (SendMessage(<< "fix", "fan", "find", "switch" >>) /\ ops'[n].kind = "patch")
       /\ ENABLED (SendMessage(<< "FIND", "wire" >>) /\ ops'[n].kind = "query")

\* this step ends locate request i with the one message txt, sets no
\* navigation target, leaves the probe alone and starts no request
EndsWithoutTarget(i, txt) ==
    /\ messages' = Append(messages, Msg("ai", "none", txt, i))
    /\ autoPilotPos' = autoPilotPos
    /\ probe' = probe
    /\ ops' = [ops EXCEPT ![i] = ops'[i]]
    /\ ops'[i].pc = "done"

\* this step hands target to the probe as the navigation target of request i
HandsTarget(i, target) ==
    /\ IsSome(target)
    /\ autoPilotPos' = target
    /\ probe'.position = Val(target)
    /\ IsSome(probe'.timer)
    /\ messages' = Append(messages, Msg("ai", "nav", "Target Acquired", i))
    /\ ops' = [ops EXCEPT ![i] = ops'[i]]
    /\ ops'[i].pc = "done"

\* C21 as stated: when the locator reports found, the percentages are
\* mapped back to a screen point and handed to the probe as its navigation
\* target; when it reports not found, a no-match message is appended, no
\* target is set and no request is started.
C21_FoundIsHandedOver ==
    [][\A i \in OpIds, resp \in LocateResponses :
          (resp.status = "object" /\ LocateResolve(i, resp))
          => IF resp.found
             THEN HandsTarget(i, autoPilotPos')
             ELSE EndsWithoutTarget(i, "Negative contact.")]_vars

\* C21 amended: when the locator reports found and the image dimensions
\* were known when the command was submitted, the percentages are mapped
\* back with those dimensions and handed to the probe as its navigation
\* target; when it reports found and they were not known, an off-screen
\* message is appended and no target is set; when it reports not found, a
\* no-match message is appended and no target is set; in the last two cases
\* no request is started.
C21_FoundNeedsDimensions ==
    [][\A i \in OpIds, resp \in LocateResponses :
          (resp.status = "object" /\ LocateResolve(i, resp))
          => IF resp.found /\ IsSome(ops[i].dims)
             THEN /\ HandsTarget(i, autoPilotPos')
                  /\ calculateImageCoordinates(Val(autoPilotPos').x + 28,
                                               Val(autoPilotPos').y + 80, ops[i].dims)
                     = [xPct |-> resp.at.x, yPct |-> resp.at.y, valid |-> TRUE]
             ELSE IF resp.found
             THEN EndsWithoutTarget(i, "Target found, but off-screen coordinates.")
             ELSE EndsWithoutTarget(i, "Negative contact.")]_vars

\* one locate command submitted before the image had loaded ended as
\* off-screen, a later one was handed to the probe
C21_Witness ==
    \E i, j \in OpIds :
        /\ ops[i].kind = "locate" /\ ops[i].outcome = "offscreen" /\ ops[i].dims = None
        /\ ops[j].kind = "locate" /\ ops[j].outcome = "found"
        /\ IsSome(autoPilotPos)
        /\ IsSome(probe.timer)

\* C22: when the patch call answers with a document, the step puts that
\* document in place of the active one and appends a patch-applied message;
\* when the call fails, the step leaves the active document as it is and
\* appends one message that is not a patch-applied message.
C22_PatchFailureReported ==
    [][\A i \in OpIds :
          /\ PatchResolve(i, "text")
             => /\ currentHtml' = [base |-> ops[i].html.base, patch |-> i]
                /\ messages' = Append(messages, Msg("ai", "patch", "System patched. Logic updated.", i))
          /\ PatchResolve(i, "throw")
             => /\ currentHtml' = currentHtml
                /\ Len(messages') = Len(messages) + 1
                /\ Last(messages').role = "ai"
                /\ Last(messages').type # "patch"]_vars

\* a is an initial part of b
IsPrefix(a, b) == Len(a) <= Len(b) /\ SubSeq(b, 1, Len(a)) = a

\* C23: every step that does not change the active creation leaves the log
\* as an initial part of the log after it: entries are only appended.
C23_LogAppendOnly ==
    [][~CreationChanges => IsPrefix(messages, messages')]_vars

\* the log of one creation holds the message of an invalid release, then
\* the request and the answer of a scan
C23_Witness ==
    /\ Len(messages) = 3
    /\ messages[1] = NoSignalMsg
    /\ messages[2].role = "user" /\ messages[2].type = "scan"
    /\ messages[3].role = "ai" /\ messages[3].op = messages[2].op

\* no two entries of the history share an id
UniqueIds ==
    \A a, b \in 1 .. Len(history) : a # b => history[a].id # history[b].id

\* C24: an imported record without html or name leaves the history and the
\* active creation as they are; an accepted record whose id the history
\* holds leaves the history as it is and becomes the active creation; an
\* accepted record with a new id is put in front of the history; and no two
\* entries of the history ever share an id.
C24_ImportValidatesAndDeduplicates ==
    /\ []UniqueIds
    /\ [][\A f \in ImportFiles :
             ImportFile(f)
             => IF ~f.valid
                THEN history' = history /\ activeCreation' = activeCreation
                ELSE /\ activeCreation' = Some([id |-> f.id, kind |-> f.kind])
                     /\ history' = IF \E k \in 1 .. Len(history) : history[k].id = f.id
                                   THEN history
                                   ELSE << [id |-> f.id, kind |-> f.kind] >> \o history]_vars

\* the history holds three creations, and a record carrying the id of the
\* oldest one was imported with another content: it is active, not added
C24_Witness ==
    /\ Len(history) = 3
    /\ IsSome(activeCreation)
    /\ Val(activeCreation).id = history[3].id
    /\ Val(activeCreation).kind # history[3].kind
    /\ \E i \in OpIds : ops[i].kind = "generate" /\ ops[i].outcome = "created"

\* The rectangle an image of positive natural size w x h is displayed in
\* under object-fit: contain, in a container W x H: scaled by the smaller of
\* W / w and H / h and centred.  Lengths are numerators over den.
DisplayedRect(container, dims) ==
    LET W == container.width
        H == container.height
        w == dims.width
        h == dims.height
    IN IF W * h <= H * w   \* W / w <= H / h: the width constrains
       THEN [den |-> 2 * w * h, width |-> 2 * w * h * W, height |-> 2 * h * h * W,
             x |-> 0, y |-> w * h * H - h * h * W]
       ELSE [den |-> 2 * w * h, width |-> 2 * w * w * H, height |-> 2 * w * h * H,
             x |-> w * h * W - w * w * H, y |-> 0]

\* the image dimensions of geo are known, and positive
GeoDimsPositive ==
    IsSome(geo.dims) /\ Val(geo.dims).width > 0 /\ Val(geo.dims).height > 0
GeoRect == DisplayedRect(geo.container, Val(geo.dims))
\* the point of geo relative to the container, over the denominator of GeoRect
GeoRelX == (geo.point.x - geo.container.left) * GeoRect.den
GeoRelY == (geo.point.y - geo.container.top) * GeoRect.den
PointInContainer ==
    /\ geo.point.x >= geo.container.left
    /\ geo.point.x <= geo.container.left + geo.container.width
    /\ geo.point.y >= geo.container.top
    /\ geo.point.y <= geo.container.top + geo.container.height
PointOutsideImage ==
    \/ GeoRelX < GeoRect.x
    \/ GeoRelX > GeoRect.x + GeoRect.width
    \/ GeoRelY < GeoRect.y
    \/ GeoRelY > GeoRect.y + GeoRect.height
PointStrictlyInsideImage ==
    /\ GeoRelX > GeoRect.x
    /\ GeoRelX < GeoRect.x + GeoRect.width
    /\ GeoRelY > GeoRect.y
    /\ GeoRelY < GeoRect.y + GeoRect.height
\* geo is the application to the point (x, y) of a container W x H at the
\* origin holding an image w x h
GeoIs(W, H, w, h, x, y) ==
    /\ geo.container = [left |-> 0, top |-> 0, width |-> W, height |-> H]
    /\ geo.dims = Some([width |-> w, height |-> h])
    /\ geo.point = Pt(x, y)

\* C25: with known (positive) image dimensions, a point inside the container
\* rectangle and outside the rectangle the contained image is displayed in
\* maps to valid = false; so does (10, 50) in the container {0, 0, 200, 100}
\* with an image of 100 x 100.
C25_OutsideImageIsInvalid ==
    IsSome(geo.target)
    => /\ (GeoDimsPositive /\ PointInContainer /\ PointOutsideImage)
          => ~Val(geo.target).valid
       /\ GeoIs(200, 100, 100, 100, 10, 50) => ~Val(geo.target).valid

\* the point (10, 50) of the example, on the bar left of the image, was mapped
C25_Witness ==
    /\ GeoIs(200, 100, 100, 100, 10, 50)
    /\ PointInContainer
    /\ PointOutsideImage
    /\ IsSome(geo.target)
    /\ Val(geo.target) = Target([nan |-> FALSE, v |-> 0], [nan |-> FALSE, v |-> 0], FALSE)

\* p is Math.round(100 * num / size), for size > 0
IsRoundedPct(p, num, size) ==
    /\ 2 * (100 * num - p * size) >= -size
    /\ 2 * (100 * num - p * size) < size

\* C26: with known image dimensions, a point strictly inside the rectangle
\* the image is displayed in maps to valid = true, with xPct the percentage
\* of the displayed width left of it rounded to the nearest whole number,
\* yPct likewise, both within 0 .. 100; (100, 50) in the container
\* {0, 0, 200, 100} with an image of 100 x 100 gives (50, 50).
C26_InsideImageIsRoundedPercent ==
    IsSome(geo.target)
    => /\ (GeoDimsPositive /\ PointStrictlyInsideImage)
          => LET t == Val(geo.target)
             IN /\ t.valid /\ ~t.xNaN /\ ~t.yNaN
                /\ IsRoundedPct(t.xPct, GeoRelX - GeoRect.x, GeoRect.width)
                /\ IsRoundedPct(t.yPct, GeoRelY - GeoRect.y, GeoRect.height)
                /\ t.xPct \in 0 .. 100
                /\ t.yPct \in 0 .. 100
       /\ GeoIs(200, 100, 100, 100, 100, 50)
          => /\ Val(geo.target).valid
             /\ Val(geo.target).xPct = 50
             /\ Val(geo.target).yPct = 50

\* a point of the image whose percentages are not whole before rounding was
\* mapped: 117 of 400 pixels across (29.25 %)
C26_Witness ==
    /\ geo.container = [left |-> 20, top |-> 40, width |-> 400, height |-> 300]
    /\ geo.dims = Some([width |-> 2, height |-> 1])
    /\ geo.point = Pt(137, 200)
    /\ PointStrictlyInsideImage
    /\ IsSome(geo.target)
    /\ Val(geo.target).valid
    /\ Val(geo.target).xPct = 29
    /\ Val(geo.target).yPct = 55

\* C27: the contain fit of an image of positive natural size: where the
\* container's ratio is the larger one the displayed height is the
\* container's and the displayed width at most the container's; otherwise
\* the displayed width is the container's and the displayed height at most
\* the container's; the offsets are not negative and centre the image.
C27_ContainFit ==
    (IsSome(geo.fit) /\ GeoDimsPositive)
    => LET f == Val(geo.fit)
           W == geo.container.width * f.den
           H == geo.container.height * f.den
       IN /\ ~f.nanH
          /\ IF geo.container.width * Val(geo.dims).height
                > Val(geo.dims).width * geo.container.height
             THEN f.dispH = H /\ f.dispW <= W
             ELSE f.dispW = W /\ f.dispH <= H
          /\ f.offX >= 0
          /\ f.offY >= 0
          /\ 2 * f.offX + f.dispW = W
          /\ 2 * f.offY + f.dispH = H

\* the fit of a square image in the container 200 x 100 was computed: 100
\* wide, 100 high, 50 from the left
C27_Witness ==
    /\ GeoIs(200, 100, 100, 100, 100, 50)
    /\ IsSome(geo.fit)
    /\ Val(geo.fit).dispW = 100 * Val(geo.fit).den
    /\ Val(geo.fit).dispH = 100 * Val(geo.fit).den
    /\ Val(geo.fit).offX = 50 * Val(geo.fit).den
    /\ Val(geo.fit).offY = 0

Abs(n) == IF n < 0 THEN -n ELSE n
\* the inverse mapping was applied to the percentages the forward mapping
\* gave for a point strictly inside the displayed image
RoundTripped ==
    /\ GeoDimsPositive
    /\ PointStrictlyInsideImage
    /\ IsSome(geo.target)
    /\ IsSome(geo.back)
    /\ Val(geo.back).of = Pt(Val(geo.target).xPct, Val(geo.target).yPct)
\* the distance, in 1/den pixels, of the round trip's result (with the tip's
\* offset added back) from the point, on each axis
RoundTripErrorX ==
    LET r == Val(Val(geo.back).at) IN Abs(r.x + TipDX * r.den - geo.point.x * r.den)
RoundTripErrorY ==
    LET r == Val(Val(geo.back).at) IN Abs(r.y + TipDY * r.den - geo.point.y * r.den)

\* C28 (as stated): the round trip of a point strictly inside the displayed
\* image recovers it within one pixel on each axis.
C28_RoundTripWithinOnePixel ==
    RoundTripped
    => /\ IsSome(Val(geo.back).at)
       /\ RoundTripErrorX <= Val(Val(geo.back).at).den
       /\ RoundTripErrorY <= Val(Val(geo.back).at).den

\* C28: the round trip of a point strictly inside the displayed image
\* recovers it within half a percent of the displayed width and of the
\* displayed height (the percentages are whole numbers).
C28_RoundTripWithinHalfPercent ==
    RoundTripped
    => /\ IsSome(Val(geo.back).at)
       /\ ~Val(Val(geo.back).at).yNaN
       /\ 2 * RoundTripErrorX <= Val(geo.fit).dispW
       /\ 2 * RoundTripErrorY <= Val(geo.fit).dispH

\* a point 2 pixels into an image displayed 400 wide went through the round
\* trip: 0.5 % is rounded to 1 %, which is 4 pixels in
C28_Witness ==
    /\ geo.container = [left |-> 20, top |-> 40, width |-> 400, height |-> 300]
    /\ geo.dims = Some([width |-> 2, height |-> 1])
    /\ geo.point = Pt(22, 140)
    /\ RoundTripped
    /\ Val(geo.target).xPct = 1
    /\ RoundTripErrorX = 2 * Val(Val(geo.back).at).den
    /\ RoundTripErrorY = 0

\* the container of geo has no area, or its image a natural width or height 0
ZeroSized ==
    \/ geo.container.width = 0
    \/ geo.container.height = 0
    \/ IsSome(geo.dims) /\ (Val(geo.dims).width = 0 \/ Val(geo.dims).height = 0)

\* C29: with a container of no area or an image of a zero dimension, the
\* forward mapping returns valid = false and the inverse mapping null; no
\* target is valid with a coordinate that is not a number.
C29_ZeroSizeIsRejected ==
    /\ (ZeroSized /\ IsSome(geo.target)) => ~Val(geo.target).valid
    /\ (ZeroSized /\ IsSome(geo.back)) => ~IsSome(Val(geo.back).at)
    /\ IsSome(geo.target)
       => ~(Val(geo.target).valid /\ (Val(geo.target).xNaN \/ Val(geo.target).yNaN))

\* x percent of a container's side, clamped: 0 before it, 100 after it,
\* rounded between
IsClampedPct(p, rel, size) ==
    IF rel <= 0 THEN p = 0
    ELSE IF rel >= size THEN p = 100
    ELSE IsRoundedPct(p, rel, size)

\* C30: with the image dimensions unknown and a container of positive area,
\* the forward mapping returns valid = true with the percentages of the
\* container's rectangle, clamped to 0 .. 100 (0 left of or above it, 100
\* right of or below it); the inverse mapping returns null.
C30_FallbackWithoutDimensions ==
    (~IsSome(geo.dims) /\ geo.container.width > 0 /\ geo.container.height > 0)
    => /\ IsSome(geo.target)
          => LET t == Val(geo.target)
             IN /\ t.valid /\ ~t.xNaN /\ ~t.yNaN
                /\ t.xPct \in 0 .. 100
                /\ t.yPct \in 0 .. 100
                /\ IsClampedPct(t.xPct, geo.point.x - geo.container.left,
                                geo.container.width)
                /\ IsClampedPct(t.yPct, geo.point.y - geo.container.top,
                                geo.container.height)
       /\ IsSome(geo.back) => ~IsSome(Val(geo.back).at)

\* both mappings were applied without image dimensions to a point left of
\* and below the container
C30_Witness ==
    /\ geo.container = [left |-> 0, top |-> 0, width |-> 200, height |-> 100]
    /\ ~IsSome(geo.dims)
    /\ geo.point = Pt(-10, 150)
    /\ IsSome(geo.target)
    /\ Val(geo.target).valid
    /\ Val(geo.target).xPct = 0
    /\ Val(geo.target).yPct = 100
    /\ IsSome(geo.back)
    /\ Val(geo.back).at = None

\* C31: the crop window is a fifth of the image's side wide and high, and at
\* most CropCap pixels: an image of 10000 x 10000 gives 400 x 400.
C31_CropWindowCapped ==
    IsSome(geo.crop)
    => LET c == Val(geo.crop)
           d == Val(geo.dims)
       IN /\ c.width <= CropCap * c.den
          /\ c.height <= CropCap * c.den
          /\ IF d.width <= 5 * CropCap THEN 5 * c.width = d.width * c.den
             ELSE c.width = CropCap * c.den
          /\ IF d.height <= 5 * CropCap THEN 5 * c.height = d.height * c.den
             ELSE c.height = CropCap * c.den

\* the crop of an image of 10000 x 10000 was computed: 400 x 400
C31_Witness ==
    /\ IsSome(geo.crop)
    /\ Val(geo.dims) = [width |-> 10000, height |-> 10000]
    /\ Val(geo.crop).width = 400 * Val(geo.crop).den
    /\ Val(geo.crop).height = 400 * Val(geo.crop).den

\* C32: for an image of positive size and a target of percentages in
\* 0 .. 100, the crop's source rectangle lies within the image; where a
\* window centred on the target lies within the image, it is that window.
C32_CropWindowInsideImage ==
    (/\ IsSome(geo.crop)
     /\ Val(geo.dims).width > 0
     /\ Val(geo.dims).height > 0
     /\ Val(geo.target).xPct \in 0 .. 100
     /\ Val(geo.target).yPct \in 0 .. 100)
    => LET c == Val(geo.crop)
           W == Val(geo.dims).width * c.den
           H == Val(geo.dims).height * c.den
           \* twice the centre, in 1/den pixels
           cx2 == 2 * Val(geo.target).xPct * Val(geo.dims).width
           cy2 == 2 * Val(geo.target).yPct * Val(geo.dims).height
       IN /\ c.srcX >= 0
          /\ c.srcX + c.width <= W
          /\ c.srcY >= 0
          /\ c.srcY + c.height <= H
          /\ (cx2 - c.width >= 0 /\ cx2 + c.width <= 2 * W) => 2 * c.srcX + c.width = cx2
          /\ (cy2 - c.height >= 0 /\ cy2 + c.height <= 2 * H) => 2 * c.srcY + c.height = cy2

\* the crop of the corner (100, 0) of an image of 2001 x 100 was computed:
\* the window is pushed back inside on both axes
C32_Witness ==
    /\ IsSome(geo.crop)
    /\ Val(geo.dims) = [width |-> 2001, height |-> 100]
    /\ Val(geo.target).xPct = 100
    /\ Val(geo.target).yPct = 0
    /\ Val(geo.crop).srcX = (2001 - 400) * Val(geo.crop).den
    /\ Val(geo.crop).srcY = 0
    /\ Val(geo.crop).height = 20 * Val(geo.crop).den

\* Request i of the preview is awaiting a remote call and the message it
\* appended when it started is not in the log: the log was emptied since,
\* which only the effect on [creation] does, so i was started under an
\* earlier active creation.
StartedUnderEarlierCreation(i) ==
    /\ InFlight(i)
    /\ ops[i].kind # "generate"
    /\ ~\E k \in 1 .. Len(messages) : messages[k].role = "user" /\ messages[k].op = i

\* C33: a step of a request that was started under an earlier active
\* creation appends nothing to the log, sets no data card and no navigation
\* target, and leaves the document as it is.
C33_LateOutcomeDiscarded ==
    [][\A i \in OpIds :
          (StartedUnderEarlierCreation(i) /\ ops'[i] # ops[i])
          => /\ messages' = messages
             /\ bioData' = bioData
             /\ techData' = techData
             /\ autoPilotPos' = autoPilotPos
             /\ currentHtml' = currentHtml]_vars

\* C34: the probe is never dragged and auto-navigating at once: a step taken
\* during a drag that leaves the drag on does not move the probe unless it
\* is the pointer's move, starts no timer, and the timer does not fire
\* during a drag.
C34_DragExcludesAutoNavigation ==
    /\ [](ProbeMounted => ~(probe.isDragging /\ probe.isAutoPiloting))
    /\ [][(ProbeMounted /\ probe.isDragging /\ probe'.isDragging)
          => /\ ~IsSome(probe'.timer)
             /\ (\E m \in ScreenPoints : PointerMove(m)) \/ probe'.position = probe.position
             /\ ~TimerFire]_vars

\* C35: a navigation target is navigated to and released once.  Where the
\* probe is not dragged, a scan is started by the timer's release only; once
\* the timer has released the target and started its scan, no step other
\* than a new Locate result (a remount of the probe after the inspection
\* mode in particular) starts the timer again.
C35_NavigationNotReplayed ==
    [][(/\ \E i \in OpIds : IsScan(i)
        /\ IsSome(probe'.timer)
        /\ probe'.timer # probe.timer)
       => \E i \in OpIds, resp \in LocateResponses : LocateResolve(i, resp)]_vars

\* C36: the busy flag is up whenever a request of the preview (scan, global
\* scan, locate, modify or query) awaits a remote call.
C36_BusyWhileInFlight ==
    (\E i \in OpIds : InFlight(i) /\ ops[i].kind # "generate") => isChatLoading

\* this step appends one message to the log, of request i with role r
AppendsOne(r, i) ==
    /\ Len(messages') = Len(messages) + 1
    /\ SubSeq(messages', 1, Len(messages)) = messages
    /\ Last(messages').role = r
    /\ Last(messages').op = i

\* C37: the step that starts a scan appends its scan-request message of
\* the user, the step that ends it appends one outcome message, the steps
\* it takes in between append nothing (and none ends it without a message),
\* and no other step appends a message of that scan.
C37_TwoMessagesPerScan ==
    [][\A i \in OpIds :
          /\ (~Started(i) /\ ops'[i].kind = "scan")
             => AppendsOne("user", i) /\ Last(messages').type = "scan"
          /\ (IsScan(i) /\ ops'[i] # ops[i])
             => /\ InFlight(i)
                /\ ops'[i].pc # "crashed"
                /\ IF ops'[i].pc = "done" THEN AppendsOne("ai", i)
                                          ELSE messages' = messages
          /\ (ops'[i] = ops[i])
             => \A k \in 1 .. Len(messages') :
                   messages'[k].op = i => k <= Len(messages) /\ messages[k] = messages'[k]]_vars

\* two scans have ended, one with a technical report and one with a failure,
\* and the log holds the four messages
C37_Witness ==
    /\ \E i, j \in OpIds :
          /\ IsScan(i) /\ Resolved(i) /\ ops[i].outcome = "tech"
          /\ IsScan(j) /\ Resolved(j) /\ ops[j].outcome = "failed"
    /\ Cardinality({ k \in 1 .. Len(messages) : messages[k].op # 0 }) = 4

\* C38: the biological data card and the technical data card are never both
\* set.
C38_OneDataCard == ~(IsSome(bioData) /\ IsSome(techData))

\* C39: the code refineSimulation sends holds the image payload nowhere, and
\* when the remote answers with the code it was sent, or with no text, the
\* document refineSimulation resolves with is the one it was given.
C39_PatchPreservesImage ==
    \A i \in OpIds :
        ops[i].kind = "patch"
        => /\ \A k \in 1 .. Len(ops[i].arg) : ops[i].arg[k] \notin {"img:data", "data"}
           /\ (Resolved(i) /\ ops[i].outcome \in {"echo", "empty"})
              => currentHtml = ops[i].html

\* C40: whenever isPlaying is true, the document the iframe holds has been
\* started by a toggleSimulation message since it was loaded; a patch or a
\* change of creation leaves no freshly loaded document with isPlaying true.
C40_PlayingMeansRunning == isPlaying => isRunning

====
